---- MODULE Spec2Model ----
(***************************************************************************)
(* A model of the agent framework of startup-simulator-3000:               *)
(*   agent_framework/utils/tool_registry.py   ToolRegistry                  *)
(*   agent_framework/state.py                 AgentState                    *)
(*   agent_framework/agent.py                 Agent (run, plan_task,        *)
(*                                            _execute_step, call_tool,     *)
(*                                            _execute_tool,                *)
(*                                            _map_inputs_to_tool)          *)
(*   agent_framework/exceptions.py            the exception classes         *)
(* Python values are tagged records, dicts are functions (ordered dicts    *)
(* are sequences of key/value pairs), strings built by f-strings are        *)
(* sequences of their pieces.                                               *)
(***************************************************************************)
EXTENDS Integers, Sequences, FiniteSets, TLC

VARIABLES
    tools,              \* ToolRegistry.tools: name -> Tool
    _implementations,   \* ToolRegistry._implementations: name -> implementation
    lastCall,           \* the last direct call on the registry or the state, and its outcome
    logger,             \* Agent.logger (None or an AgentLogger with its hooks)
    llm_provider,       \* Agent.llm_provider
    state,              \* Agent.state
    message_history,    \* Agent.message_history
    current_task,       \* Agent.current_task: which TaskExecution (0 is None)
    tasks,              \* the TaskExecution objects, by the run that made them
    _current_plan,      \* Agent._current_plan
    attrs,              \* attributes a subclass adds (context_data, task_parameters)
    rl,                 \* the locals and position of each Agent.run coroutine
    events              \* the calls made so far on tools, hooks, logger, model

vars == <<tools, _implementations, lastCall, logger, llm_provider, state,
          message_history, current_task, tasks, _current_plan, attrs, rl, events>>

(***************************************************************************)
(* Python values                                                            *)
(***************************************************************************)
None == [t |-> "none"]
VInt(n) == [t |-> "int", n |-> n]
VStr(s) == [t |-> "str", s |-> s]
VDict(d) == [t |-> "dict", d |-> d]

\* bool(v) of a Python value
Truthy(v) ==
    CASE v.t = "none" -> FALSE
      [] v.t = "int" -> v.n # 0
      [] v.t = "str" -> v.s # ""
      [] v.t = "dict" -> DOMAIN v.d # {}
      [] OTHER -> TRUE

\* isinstance(v, dict)
IsDict(v) == v.t = "dict"

\* d.get(k, default) on a dict held as a function
Get(d, k, default) == IF k \in DOMAIN d THEN d[k] ELSE default

\* the empty dict
EmptyDict == [k \in {} |-> None]

\* d[k] = v on a dict held as a function
Put(d, k, v) == [x \in DOMAIN d \cup {k} |-> IF x = k THEN v ELSE d[x]]

(***************************************************************************)
(* Ordered dicts (insertion order is observable through .items())           *)
(***************************************************************************)
OKeys(od) == {od[i][1] : i \in 1..Len(od)}

OHas(od, k) == k \in OKeys(od)

OIndex(od, k) == CHOOSE i \in 1..Len(od) : od[i][1] = k

OGet(od, k, default) == IF OHas(od, k) THEN od[OIndex(od, k)][2] ELSE default

\* od[k] = v: a present key keeps its position, a new key goes last
OPut(od, k, v) ==
    IF OHas(od, k) THEN [od EXCEPT ![OIndex(od, k)] = <<k, v>>]
    ELSE Append(od, <<k, v>>)

(***************************************************************************)
(* exceptions.py: an exception is its class and str(e)                      *)
(***************************************************************************)
Exc(type, msg) == [type |-> type, msg |-> msg]

\* a wrapper that lets the tool's own exception through
ToolExecutionErrorUnwrapped(tool_name, original_error) == original_error

\* ToolExecutionError(tool_name, original_error)
ToolExecutionError(tool_name, original_error) ==
    [type |-> "ToolExecutionError",
     msg |-> <<"Tool ", tool_name, " execution failed: ">> \o original_error.msg,
     tool_name |-> tool_name,
     original_error |-> original_error]

NoExc == [type |-> "none", msg |-> <<>>]

(***************************************************************************)
(* ToolRegistry                                                             *)
(***************************************************************************)
\* Tool(...) as built by register: hooks=None
ToolOf(metadata) ==
    [name |-> metadata.name,
     description |-> metadata.description,
     tags |-> metadata.tags,
     input_schema |-> metadata.input_schema,
     output_schema |-> metadata.output_schema,
     hooks |-> "None"]

Returned(v) == [raised |-> FALSE, value |-> v]
Raised(e) == [raised |-> TRUE, exc |-> e]

\* the registry object: tools is an ordered dict (list_tools and
\* get_tools_by_tags iterate tools.values()), _implementations a dict
Registry == [tools |-> tools, impls |-> _implementations]

\* register with the duplicate check dropped: a second registration overwrites
RegisterOverwrite(reg, metadata, implementation) ==
    [tools |-> OPut(reg.tools, metadata.name, ToolOf(metadata)),
     impls |-> Put(reg.impls, metadata.name, implementation),
     result |-> Returned(None)]

\* ToolRegistry.register on the registry reg = [tools, impls]
register(reg, metadata, implementation) ==
    IF OHas(reg.tools, metadata.name)
    THEN [tools |-> reg.tools, impls |-> reg.impls,
          result |-> Raised(Exc("ValueError",
                                <<"Tool ", metadata.name, " is already registered">>))]
    ELSE [tools |-> OPut(reg.tools, metadata.name, ToolOf(metadata)),
          impls |-> Put(reg.impls, metadata.name, implementation),
          result |-> Returned(None)]

\* ToolRegistry.get_tool: the Tool, or None
get_tool(name) == OGet(tools, name, None)

\* ToolRegistry.get_implementation: the implementation, or "None"
get_implementation(name) == Get(_implementations, name, "None")

\* ToolRegistry.list_tools: list(self.tools.values())
list_tools == [i \in 1..Len(tools) |-> tools[i][2]]

\* a tag test with OR semantics: some query tag is among the tool's tags
HasAnyTag(tool, tags) ==
    \E i \in 1..Len(tags) : \E j \in 1..Len(tool.tags) : tool.tags[j] = tags[i]

\* all(tag in tool.tags for tag in tags)
HasAllTags(tool, tags) ==
    \A j \in 1..Len(tags) : \E k \in 1..Len(tool.tags) : tool.tags[k] = tags[j]

\* [x for x in s if P(x)] for a predicate given as the set of kept elements
RECURSIVE FilterSeq(_, _)
FilterSeq(s, keep) ==
    IF s = <<>> THEN <<>>
    ELSE (IF Head(s) \in keep THEN <<Head(s)>> ELSE <<>>) \o FilterSeq(Tail(s), keep)

\* ToolRegistry.get_tools_by_tags
get_tools_by_tags(tags) ==
    FilterSeq(list_tools, {list_tools[i] : i \in {j \in 1..Len(tools) : HasAllTags(list_tools[j], tags)}})

(***************************************************************************)
(* state.py: AgentState.  Agent.__init__ leaves self.state a plain dict;    *)
(* a subclass may assign AgentState() (weather_vibes_agent.py).             *)
(***************************************************************************)
PlainDict == [kind |-> "dict"]

\* AgentState(): every field at its default
AgentState ==
    [kind |-> "AgentState",
     variables |-> EmptyDict,
     tool_results |-> <<>>,
     last_tool |-> "None",
     task_start_time |-> "None",
     task_variables |-> EmptyDict]

has_variable(s, name) == name \in DOMAIN s.variables

set_variable(s, name, value) == [s EXCEPT !.variables = Put(s.variables, name, value)]

get_variable(s, name, default) == Get(s.variables, name, default)

\* a set_tool_result that appends a second entry for a name it already holds
SetToolResultAppend(s, tool_name, result) ==
    [s EXCEPT !.tool_results = Append(s.tool_results, <<tool_name, result>>),
              !.last_tool = tool_name]

\* a set_tool_result that loses the write
SetToolResultDropped(s, tool_name, result) == s

set_tool_result(s, tool_name, result) ==
    [s EXCEPT !.tool_results = OPut(s.tool_results, tool_name, result),
              !.last_tool = tool_name]

get_tool_result(s, tool_name, default) == OGet(s.tool_results, tool_name, default)

get_last_tool_result(s, default) ==
    IF s.last_tool = "None" \/ s.last_tool = "" THEN default
    ELSE OGet(s.tool_results, s.last_tool, default)

clear(s) ==
    [s EXCEPT !.variables = EmptyDict, !.tool_results = <<>>, !.last_tool = "None",
              !.task_variables = EmptyDict, !.task_start_time = "None"]

has_tool_result(s, tool_name) == OHas(s.tool_results, tool_name)

\* what touching self.state.<method> raises while self.state is a plain dict
AttributeError(attr) == Exc("AttributeError", <<"'dict' object has no attribute '", attr, "'">>)

(***************************************************************************)
(* Agent._map_inputs_to_tool                                                *)
(* A reference of an input_mapping is held split at its dots:               *)
(* "other.y" is <<"other", "y">>, "other" is <<"other">>.                   *)
(***************************************************************************)
\* the value one explicit entry binds; Unbound when the entry binds nothing
Unbound == [t |-> "unbound"]

\* an explicit entry that never looks a result up: the reference is bound
\* as it is written
ExplicitEntryLiteral(s, value_ref) ==
    IF Len(value_ref) > 1 THEN VStr(value_ref[1]) ELSE VStr(value_ref[1])

ExplicitEntry(s, value_ref) ==
    IF Len(value_ref) > 1
    THEN LET tool_result == get_tool_result(s, value_ref[1], None)
         IN  IF Truthy(tool_result) /\ IsDict(tool_result)
             THEN Get(tool_result.d, value_ref[2], None)
             ELSE Unbound
    ELSE LET tool_result == get_tool_result(s, value_ref[1], None)
         IN  IF tool_result # None THEN tool_result ELSE VStr(value_ref[1])

\* lines 344-361: the explicit mapping
MapExplicit(s, input_mapping) ==
    IF s.kind = "dict" THEN Raised(AttributeError("get_tool_result"))
    ELSE IF \E k \in DOMAIN input_mapping : Len(input_mapping[k]) > 2
    THEN Raised(Exc("ValueError", <<"too many values to unpack (expected 2)">>))
    ELSE LET bound == {k \in DOMAIN input_mapping :
                          ExplicitEntry(s, input_mapping[k]) # Unbound}
         IN  Returned([k \in bound |-> ExplicitEntry(s, input_mapping[k])])

\* the first tool result that is a non-empty dict, in the order of tool_results
FirstDictResult(s) ==
    LET hits == {i \in 1..Len(s.tool_results) :
                    Truthy(s.tool_results[i][2]) /\ IsDict(s.tool_results[i][2])}
    IN  IF hits = {} THEN Unbound
        ELSE s.tool_results[CHOOSE i \in hits : \A j \in hits : i <= j][2]

\* a default binding that looks at the state variable before the tool result
DefaultEntryVariableFirst(s, at, task, input_name, input_schema) ==
    IF "$ref" \in DOMAIN input_schema THEN FirstDictResult(s)
    ELSE IF has_variable(s, input_name) THEN get_variable(s, input_name, None)
    ELSE IF has_tool_result(s, input_name) THEN get_tool_result(s, input_name, None)
    ELSE IF Get(input_schema, "type", "") = "string"
    THEN IF input_name \in {"news_context", "hn_context"} /\ "context_data" \in DOMAIN at
         THEN at["context_data"]
         ELSE IF "task_parameters" \in DOMAIN at /\ input_name \in DOMAIN at["task_parameters"]
         THEN at["task_parameters"][input_name]
         ELSE VStr(task)
    ELSE Unbound

\* lines 365-387: what one property of the schema binds without a mapping
DefaultEntry(s, at, task, input_name, input_schema) ==
    IF "$ref" \in DOMAIN input_schema THEN FirstDictResult(s)
    ELSE IF has_tool_result(s, input_name) THEN get_tool_result(s, input_name, None)
    ELSE IF has_variable(s, input_name) THEN get_variable(s, input_name, None)
    ELSE IF Get(input_schema, "type", "") = "string"
    THEN IF input_name = "news_context" /\ "context_data" \in DOMAIN at
         THEN at["context_data"]
         ELSE IF input_name = "hn_context" /\ "context_data" \in DOMAIN at
         THEN at["context_data"]
         ELSE IF "task_parameters" \in DOMAIN at /\ input_name \in DOMAIN at["task_parameters"]
         THEN at["task_parameters"][input_name]
         ELSE VStr(task)
    ELSE Unbound

\* the name the local tool_name holds at line 397: the $ref scan rebinds it
NameAtRaise(s, tool_name, properties) ==
    IF (\E p \in DOMAIN properties : "$ref" \in DOMAIN properties[p]) /\ s.tool_results # <<>>
    THEN s.tool_results[Len(s.tool_results)][1]
    ELSE tool_name

\* a schema-guided mapping that rejects a tool for which nothing was mapped
MapDefaultRejectingEmpty(s, at, tool, task) ==
    LET properties == Get(tool.input_schema, "properties", EmptyDict)
        bound == {p \in DOMAIN properties :
                      DefaultEntry(s, at, task, p, properties[p]) # Unbound}
    IN  IF bound # {}
        THEN Returned([p \in bound |-> DefaultEntry(s, at, task, p, properties[p])])
        ELSE Raised(Exc("ValueError", <<"Could not map inputs for tool ", tool.name>>))

\* lines 363-397: the schema-guided mapping
MapDefault(s, at, tool, task) ==
    LET properties == Get(tool.input_schema, "properties", EmptyDict)
        required_fields == Get(tool.input_schema, "required", <<>>)
        bound == {p \in DOMAIN properties :
                      DefaultEntry(s, at, task, p, properties[p]) # Unbound}
        mapped_inputs == [p \in bound |-> DefaultEntry(s, at, task, p, properties[p])]
    IN  IF s.kind = "dict" /\ DOMAIN properties # {}
        THEN Raised(AttributeError(
                 IF \E p \in DOMAIN properties : "$ref" \in DOMAIN properties[p]
                 THEN "tool_results" ELSE "has_tool_result"))
        ELSE IF s.kind = "dict"
        THEN (IF required_fields = <<>> THEN Returned(EmptyDict)
              ELSE Raised(Exc("ValueError", <<"Could not map inputs for tool ", tool.name>>)))
        ELSE IF required_fields = <<>> /\ bound = {} THEN Returned(EmptyDict)
        ELSE IF bound # {} THEN Returned(mapped_inputs)
        ELSE Raised(Exc("ValueError",
                        <<"Could not map inputs for tool ",
                          NameAtRaise(s, tool.name, properties)>>))

\* _map_inputs_to_tool that ignores the explicit mapping
MapIgnoringMapping(reg, s, at, tool_name, task, input_mapping) ==
    IF ~OHas(reg.tools, tool_name)
    THEN Raised(Exc("ToolNotFoundError", <<"Tool ", tool_name, " not found">>))
    ELSE MapDefault(s, at, OGet(reg.tools, tool_name, None), task)

\* _map_inputs_to_tool that fills the properties an explicit mapping leaves
\* out from the schema-guided defaults
MapExplicitOverDefaults(reg, s, at, tool_name, task, input_mapping) ==
    IF ~OHas(reg.tools, tool_name)
    THEN Raised(Exc("ToolNotFoundError", <<"Tool ", tool_name, " not found">>))
    ELSE LET explicit == MapExplicit(s, input_mapping)
             default == MapDefault(s, at, OGet(reg.tools, tool_name, None), task)
         IN  IF DOMAIN input_mapping = {} THEN default
             ELSE IF explicit.raised \/ default.raised THEN explicit
             ELSE Returned([k \in DOMAIN explicit.value \cup DOMAIN default.value |->
                               IF k \in DOMAIN explicit.value THEN explicit.value[k]
                               ELSE default.value[k]])

\* Agent._map_inputs_to_tool(tool_name, task, input_mapping)
_map_inputs_to_tool(reg, s, at, tool_name, task, input_mapping) ==
    IF ~OHas(reg.tools, tool_name)
    THEN Raised(Exc("ToolNotFoundError", <<"Tool ", tool_name, " not found">>))
    ELSE IF DOMAIN input_mapping # {}
    THEN MapExplicit(s, input_mapping)
    ELSE MapDefault(s, at, OGet(reg.tools, tool_name, None), task)

(***************************************************************************)
(* models.py: TaskExecution, ToolContext.  agent.py: Agent                  *)
(***************************************************************************)
RunIds == {1, 2}

\* TaskExecution(task_id, agent_id, input, start_time, steps=[])
TaskExecution(r, task) ==
    [task_id |-> r, input |-> task, steps |-> <<>>, output |-> None,
     end_time |-> "None", status |-> "in_progress", error |-> None]

\* str(e) as stored in TaskExecution.error
Str(e) == [t |-> "str", s |-> e.msg]

\* [x for x in xs if x]
RECURSIVE TruthyOnly(_)
TruthyOnly(xs) ==
    IF xs = <<>> THEN <<>>
    ELSE (IF Truthy(Head(xs)) THEN <<Head(xs)>> ELSE <<>>) \o TruthyOnly(Tail(xs))

\* Agent._create_tool_context, for the task object tk
_create_tool_context(tk, mh, cp, tool_name, inputs) ==
    [task |-> tk.input,
     tool_name |-> tool_name,
     inputs |-> inputs,
     previous_tools |-> [j \in 1..Len(tk.steps) |-> tk.steps[j].tool_name],
     previous_results |-> TruthyOnly([j \in 1..Len(tk.steps) |-> tk.steps[j].result]),
     previous_errors |-> TruthyOnly([j \in 1..Len(tk.steps) |-> tk.steps[j].error]),
     message_history |-> mh,
     task_id |-> tk.task_id,
     plan |-> cp]

HookError == Exc("HookError", <<"hook raised">>)
\* what a logger method raises, with the line of agent.py that called it
LoggerError(line) == [type |-> "LoggerError", msg |-> <<"logger raised">>, line |-> line]

HasLogger == logger.present
HasSelectionHooks == logger.present /\ logger.selection_hooks
HasToolHooks(tool_name) == OGet(tools, tool_name, None).hooks # "None"

\* an except clause of call_tool that re-raises without telling the hooks
CallToolExceptSilent(r, i, tool_name, ctx, e, aftErrRaises) == [evs |-> <<>>, exc |-> e]

\* the except clause of call_tool (lines 139-143): after_execution with the
\* error, then the error goes on (or the hook's own error, if it raises)
CallToolExcept(r, i, tool_name, ctx, e, aftErrRaises) ==
    IF HasToolHooks(tool_name)
    THEN [evs |-> <<[e |-> "after_execution", r |-> r, i |-> i, ctx |-> ctx,
                     result |-> None, error |-> e]>>,
          exc |-> IF aftErrRaises THEN HookError ELSE e]
    ELSE [evs |-> <<>>, exc |-> e]

\* a lookup that finds every name
ToolKnownAlways(tool_name) == TRUE

\* _execute_step line 306: self.tool_registry.get_tool(tool_name) is truthy
ToolKnown(tool_name) == get_tool(tool_name) # None

\* a step that an attached hook vetoes by returning, and that finds no tool
\* when no hook is attached
StepBeginWithVeto(r, i, step, task, tk, mh, cp, st, hk) ==
    [out |-> "raised", evs |-> <<>>,
     exc |-> Exc(IF ToolKnown(step.tool) /\ HasToolHooks(step.tool)
                 THEN "RuntimeError" ELSE "ToolNotFoundError",
                 <<"Tool ", step.tool, " not found">>)]

\* _execute_step (lines 303-325) and call_tool / _execute_tool (lines 107-153)
\* for step i of the plan, up to the await of the tool's execute:
\* out = "executing" (the tool is in flight) or "raised"
StepBegin(r, i, step, task, tk, mh, cp, st, hk) ==
    LET tool_name == step.tool
        mapped == _map_inputs_to_tool(Registry, st, attrs, tool_name, task, step.input_mapping)
        evMap == [e |-> "_map_inputs_to_tool", r |-> r, i |-> i, tool |-> tool_name]
    IN
    IF ~ToolKnown(tool_name)
    THEN [out |-> "raised", evs |-> <<>>,
          exc |-> Exc("ToolNotFoundError", <<"Tool ", tool_name, " not found">>)]
    ELSE IF mapped.raised
    THEN [out |-> "raised", evs |-> <<evMap>>, exc |-> mapped.exc]
    ELSE
    LET inputs == mapped.value
        ctx == _create_tool_context(tk, mh, cp, tool_name, inputs)
        evSel == IF HasSelectionHooks
                 THEN <<[e |-> "after_selection", r |-> r, i |-> i, ctx |-> ctx,
                         selected_tool |-> tool_name, confidence |-> "1.0",
                         reasoning |-> <<step.reasoning>>]>>
                 ELSE <<>>
        evBef == IF HasToolHooks(tool_name)
                 THEN <<[e |-> "before_execution", r |-> r, i |-> i, ctx |-> ctx]>>
                 ELSE <<>>
        noImpl == Exc("ToolNotFoundError", <<"No implementation found for tool: ", tool_name>>)
    IN
    IF HasSelectionHooks /\ hk.sel
    THEN [out |-> "raised", evs |-> <<evMap>> \o evSel, exc |-> HookError]
    ELSE IF HasToolHooks(tool_name) /\ hk.bef
    THEN LET x == CallToolExcept(r, i, tool_name, ctx, HookError, hk.aftErr)
         IN  [out |-> "raised", evs |-> <<evMap>> \o evSel \o evBef \o x.evs, exc |-> x.exc]
    ELSE IF get_implementation(tool_name) = "None"
    THEN LET x == CallToolExcept(r, i, tool_name, ctx, noImpl, hk.aftErr)
         IN  [out |-> "raised", evs |-> <<evMap>> \o evSel \o evBef \o x.evs, exc |-> x.exc]
    ELSE [out |-> "executing",
          evs |-> <<evMap>> \o evSel \o evBef \o
                  <<[e |-> "execute", r |-> r, i |-> i, tool |-> tool_name, inputs |-> inputs]>>,
          exc |-> NoExc, inputs |-> inputs, ctx |-> ctx]

\* a loop that hands the formatter the state store's results (one per tool)
\* instead of the list it collected
ContinueFromStore(r, i, plan, task, results, tk, mh, cp, st, hk) ==
    IF i <= Len(plan.execution_plan)
    THEN StepBegin(r, i, plan.execution_plan[i], task, tk, mh, cp, st, hk)
    ELSE [out |-> "formatting",
          evs |-> <<[e |-> "_format_result", r |-> r, task |-> task,
                     results |-> IF st.kind = "dict" THEN <<>> ELSE st.tool_results]>>,
          exc |-> NoExc]

\* a loop that takes a step whose tool already has a result for the end of
\* the plan
ContinueDeduplicating(r, i, plan, task, results, tk, mh, cp, st, hk) ==
    IF i <= Len(plan.execution_plan) /\ ~OHas(results, plan.execution_plan[i].tool)
    THEN StepBegin(r, i, plan.execution_plan[i], task, tk, mh, cp, st, hk)
    ELSE [out |-> "formatting",
          evs |-> <<[e |-> "_format_result", r |-> r, task |-> task, results |-> results]>>,
          exc |-> NoExc]

\* the for loop of run (lines 277-282) from step i on: begin step i, or, past
\* the last step, call _format_result
Continue(r, i, plan, task, results, tk, mh, cp, st, hk) ==
    IF i <= Len(plan.execution_plan)
    THEN StepBegin(r, i, plan.execution_plan[i], task, tk, mh, cp, st, hk)
    ELSE [out |-> "formatting",
          evs |-> <<[e |-> "_format_result", r |-> r, task |-> task, results |-> results]>>,
          exc |-> NoExc]

\* a finally clause that marks every task completed, failed ones included
FinallyPromoteAlways(tk) == [tk EXCEPT !.end_time = "stamped", !.status = "completed"]

\* a finally clause that stamps end_time and promotes nothing
FinallyWithoutPromotion(tk) == [tk EXCEPT !.end_time = "stamped"]

\* the finally clause of run (lines 297-300) on the task object tk
Finally(tk) ==
    [tk EXCEPT !.end_time = "stamped",
               !.status = IF tk.status = "in_progress" THEN "completed" ELSE tk.status]

\* the except clause of run that records the error but leaves the status
ExceptKeepStatus(tk, e) == [tk EXCEPT !.error = Str(e)]

\* the except clause of run (lines 293-296) on the task object tk
Except(tk, e) == [tk EXCEPT !.error = Str(e), !.status = "failed"]

(***************************************************************************)
(* Agent.run as a coroutine: one action per stretch of code between the     *)
(* awaits of the model call, of a tool's execute and of _format_result.     *)
(* A hook or logger call is made inside the action; whether it raises is    *)
(* an input of the action.                                                  *)
(***************************************************************************)
\* plan_task line 222
NotConfigured == Exc("RuntimeError", <<"LLM provider not configured">>)

\* (state0: the state store as the run found it, kept for reference)
Idle == [pc |-> "idle", task |-> "", plan |-> None, i |-> 0, results |-> <<>>,
         inputs |-> EmptyDict, ctx |-> None, exc |-> NoExc, ret |-> None,
         state0 |-> None]

\* run's except and finally clauses for the error e: the run ends raising e
\* (locals: the run's local variables when e is raised)
RunFails(r, e, tk, ct, locals) ==
    /\ tasks' = [tk EXCEPT ![ct] = Finally(Except(@, e))]
    /\ _current_plan' = None
    /\ rl' = [rl EXCEPT ![r] = [locals EXCEPT !.pc = "raised", !.exc = e]]

\* the loop of run from step i on (lines 277-282), after the events pre
Proceed(r, i, plan, results, tk, cp, st, mh, pre, hk) ==
    \E c \in {Continue(r, i, plan, rl[r].task, results, tk[current_task], mh, cp, st, hk)} :
        /\ events' = events \o pre \o c.evs
        /\ IF c.out = "raised"
           THEN RunFails(r, c.exc, tk, current_task,
                         [rl[r] EXCEPT !.plan = plan, !.i = i, !.results = results])
           ELSE /\ tasks' = tk
                /\ _current_plan' = cp
                /\ rl' = [rl EXCEPT ![r] =
                            [@ EXCEPT !.pc = c.out, !.plan = plan, !.i = i,
                                      !.results = results,
                                      !.inputs = IF c.out = "executing" THEN c.inputs ELSE EmptyDict,
                                      !.ctx = IF c.out = "executing" THEN c.ctx ELSE None]]

\* whether each hook call of an action raises; a hook that is not attached
\* is not called and has nothing to choose
Choice(present) == IF present THEN BOOLEAN ELSE {FALSE}

AnyToolHooks == \E i \in 1..Len(tools) : tools[i][2].hooks # "None"

HookChoices ==
    {h \in [sel : Choice(HasSelectionHooks), bef : Choice(AnyToolHooks),
            aft : Choice(AnyToolHooks), aftErr : Choice(AnyToolHooks)] :
        \* the first of after / selection / before that raises ends the step
        Cardinality({f \in {"sel", "bef", "aft"} : h[f]}) <= 1}

\* run(task), lines 260-273, into plan_task (lines 221-234) up to the await
\* of generate_structured.  ls1, ls2: the two on_agent_start calls raise
Run(r, task, ls1, ls2) ==
    /\ rl[r].pc = "idle"
    /\ current_task' = r
    /\ LET tk == [tasks EXCEPT ![r] = TaskExecution(r, task)]
           evStart == [e |-> "on_agent_start", r |-> r]
       IN  IF HasLogger /\ ls1
           THEN \* line 269 raises: outside the try, no except, no finally
                /\ tasks' = tk
                /\ rl' = [rl EXCEPT ![r] = [Idle EXCEPT !.pc = "raised", !.task = task,
                                                       !.state0 = state,
                                                       !.exc = LoggerError(269)]]
                /\ events' = Append(events, evStart)
                /\ UNCHANGED _current_plan
           ELSE IF llm_provider = "None"
           THEN /\ RunFails(r, NotConfigured, tk, r, [Idle EXCEPT !.task = task, !.state0 = state])
                /\ events' = events \o (IF HasLogger THEN <<evStart>> ELSE <<>>)
           ELSE IF HasLogger /\ ls2
           THEN /\ RunFails(r, LoggerError(228), tk, r, [Idle EXCEPT !.task = task, !.state0 = state])
                /\ events' = events \o <<evStart, evStart>>
           ELSE /\ tasks' = tk
                /\ rl' = [rl EXCEPT ![r] = [Idle EXCEPT !.pc = "planning", !.task = task,
                                                       !.state0 = state]]
                /\ events' = events \o (IF HasLogger THEN <<evStart, evStart>> ELSE <<>>)
                               \o <<[e |-> "generate_structured", r |-> r]>>
                /\ UNCHANGED _current_plan
    /\ UNCHANGED <<tools, _implementations, lastCall, logger, llm_provider, state,
                   message_history, attrs>>

\* generate_structured returns the plan: plan_task lines 236-245, then run
\* lines 273-279 up to the first tool's execute (or _format_result)
PlanReturns(r, plan, hk) ==
    /\ rl[r].pc = "planning"
    /\ Proceed(r, 1, plan, <<>>, tasks, plan, state, message_history,
               IF HasLogger THEN <<[e |-> "on_agent_planning", r |-> r]>> ELSE <<>>, hk)
    /\ UNCHANGED <<tools, _implementations, lastCall, logger, llm_provider, state,
                   message_history, current_task, attrs>>

\* generate_structured returns and on_agent_planning (line 238) raises:
\* plan_task's except clause calls logger.error and re-raises.
\* le: logger.error raises
PlanningLogRaises(r, le) ==
    /\ rl[r].pc = "planning"
    /\ HasLogger
    /\ RunFails(r, IF le THEN LoggerError(248) ELSE LoggerError(238), tasks,
                current_task, rl[r])
    /\ events' = events \o <<[e |-> "on_agent_planning", r |-> r],
                              [e |-> "logger.error", r |-> r]>>
    /\ UNCHANGED <<tools, _implementations, lastCall, logger, llm_provider, state,
                   message_history, current_task, attrs>>

\* generate_structured raises e: plan_task's except clause logs and re-raises
PlanRaises(r, e, le) ==
    /\ rl[r].pc = "planning"
    /\ RunFails(r, IF HasLogger /\ le THEN LoggerError(248) ELSE e, tasks, current_task, rl[r])
    /\ events' = events \o (IF HasLogger THEN <<[e |-> "logger.error", r |-> r]>> ELSE <<>>)
    /\ UNCHANGED <<tools, _implementations, lastCall, logger, llm_provider, state,
                   message_history, current_task, attrs>>

\* the entry call_tool appends to message_history (lines 122-131)
HistoryEntry(tool_name, inputs, result, reasoning) ==
    [role |-> "tool", tool_name |-> tool_name, inputs |-> inputs, result |-> result,
     reasoning |-> reasoning]

\* the tool's execute returns result: _execute_tool lines 155-158, call_tool
\* lines 121-137, run line 279, then the next step up to its await
ToolReturns(r, result, hk) ==
    /\ rl[r].pc = "executing"
    /\ LET step == rl[r].plan.execution_plan[rl[r].i]
           tool_name == step.tool
           ctx == rl[r].ctx
           evAfter == [e |-> "after_execution", r |-> r, i |-> rl[r].i, ctx |-> ctx,
                       result |-> result, error |-> NoExc]
           st1 == set_tool_result(state, tool_name, result)
           mh1 == Append(message_history,
                         HistoryEntry(tool_name, rl[r].inputs, result, step.reasoning))
       IN  IF state.kind = "dict"
           THEN \* set_tool_result raises inside _execute_tool's try
                LET x == CallToolExcept(r, rl[r].i, tool_name, ctx,
                             ToolExecutionError(tool_name, AttributeError("set_tool_result")),
                             hk.aftErr)
                IN  /\ RunFails(r, x.exc, tasks, current_task, rl[r])
                    /\ events' = events \o x.evs
                    /\ UNCHANGED <<state, message_history>>
           ELSE /\ state' = st1
                /\ message_history' = mh1
                /\ IF HasToolHooks(tool_name) /\ hk.aft
                   THEN LET x == CallToolExcept(r, rl[r].i, tool_name, ctx, HookError, hk.aftErr)
                        IN  /\ RunFails(r, x.exc, tasks, current_task, rl[r])
                            /\ events' = events \o <<evAfter>> \o x.evs
                   ELSE Proceed(r, rl[r].i + 1, rl[r].plan,
                                Append(rl[r].results, <<tool_name, result>>),
                                tasks, _current_plan, st1, mh1,
                                IF HasToolHooks(tool_name) THEN <<evAfter>> ELSE <<>>, hk)
    /\ UNCHANGED <<tools, _implementations, lastCall, logger, llm_provider,
                   current_task, attrs>>

\* a failing tool call that still records a (None) result in the store and
\* in the history before the error goes on
ToolRaisesAfterWrite(r, e, hk) ==
    /\ rl[r].pc = "executing"
    /\ LET step == rl[r].plan.execution_plan[rl[r].i]
           x == CallToolExcept(r, rl[r].i, step.tool, rl[r].ctx,
                               ToolExecutionError(step.tool, e), hk.aftErr)
       IN  /\ RunFails(r, x.exc, tasks, current_task, rl[r])
           /\ events' = events \o x.evs
           /\ state' = IF state.kind = "dict" THEN state
                       ELSE set_tool_result(state, step.tool, None)
           /\ message_history' =
                  Append(message_history,
                         HistoryEntry(step.tool, rl[r].inputs, None, step.reasoning))
    /\ UNCHANGED <<tools, _implementations, lastCall, logger, llm_provider,
                   current_task, attrs>>

\* the tool's execute raises e: _execute_tool line 160, call_tool's except
ToolRaises(r, e, hk) ==
    /\ rl[r].pc = "executing"
    /\ LET tool_name == rl[r].plan.execution_plan[rl[r].i].tool
           x == CallToolExcept(r, rl[r].i, tool_name, rl[r].ctx,
                               ToolExecutionError(tool_name, e), hk.aftErr)
       IN  /\ RunFails(r, x.exc, tasks, current_task, rl[r])
           /\ events' = events \o x.evs
    /\ UNCHANGED <<tools, _implementations, lastCall, logger, llm_provider, state,
                   message_history, current_task, attrs>>

\* a run that empties message_history when it returns
FormatReturnsClearingHistory(r, result, ld) ==
    /\ rl[r].pc = "formatting"
    /\ LET tk == [tasks EXCEPT ![current_task].output = result]
       IN  IF HasLogger /\ ld
           THEN RunFails(r, LoggerError(287), tk, current_task, rl[r])
           ELSE /\ tasks' = [tk EXCEPT ![current_task] = Finally(@)]
                /\ _current_plan' = None
                /\ rl' = [rl EXCEPT ![r].pc = "returned", ![r].ret = result]
    /\ events' = events \o (IF HasLogger
                            THEN <<[e |-> "on_agent_done", r |-> r, result |-> result,
                                    message_history |-> message_history]>>
                            ELSE <<>>)
    /\ message_history' = <<>>
    /\ UNCHANGED <<tools, _implementations, lastCall, logger, llm_provider, state,
                   current_task, attrs>>

\* _format_result returns result: run lines 283-291 and the finally clause.
\* ld: on_agent_done raises
FormatReturns(r, result, ld) ==
    /\ rl[r].pc = "formatting"
    /\ LET tk == [tasks EXCEPT ![current_task].output = result]
       IN  IF HasLogger /\ ld
           THEN RunFails(r, LoggerError(287), tk, current_task, rl[r])
           ELSE /\ tasks' = [tk EXCEPT ![current_task] = Finally(@)]
                /\ _current_plan' = None
                /\ rl' = [rl EXCEPT ![r].pc = "returned", ![r].ret = result]
    /\ events' = events \o (IF HasLogger
                            THEN <<[e |-> "on_agent_done", r |-> r, result |-> result,
                                    message_history |-> message_history]>>
                            ELSE <<>>)
    /\ UNCHANGED <<tools, _implementations, lastCall, logger, llm_provider, state,
                   message_history, current_task, attrs>>

\* _format_result raises e
FormatRaises(r, e) ==
    /\ rl[r].pc = "formatting"
    /\ RunFails(r, e, tasks, current_task, rl[r])
    /\ UNCHANGED <<tools, _implementations, lastCall, logger, llm_provider, state,
                   message_history, current_task, attrs, events>>

(***************************************************************************)
(* The agent as a concrete subclass constructs it, and what its             *)
(* collaborators (model, tools, formatter, hooks) may do                    *)
(***************************************************************************)
MaxPlanLen == 3

NoCall == [op |-> "none"]

Schema(properties, required) == [properties |-> properties, required |-> required]

Metadata(name, description, tags, input_schema) ==
    [name |-> name, description |-> description, tags |-> tags,
     input_schema |-> input_schema, output_schema |-> EmptyDict]

\* the tools the agent's constructor registers, in order
Catalogue ==
    << Metadata("conv", "text to number", <<"text">>,
                Schema([text |-> [type |-> "string"]], <<"text">>)),
       Metadata("calc", "calculator", <<"math">>,
                Schema([x |-> [type |-> "number"]], <<"x">>)) >>

\* _register_tools of a subclass: register each in turn
RECURSIVE RegisterAll(_, _)
RegisterAll(reg, metas) ==
    IF metas = <<>> THEN reg
    ELSE RegisterAll(register(reg, Head(metas), "Impl"), Tail(metas))

\* Agent._setup_logger: tool.hooks = logger.get_tool_hooks() for every tool
_setup_logger(ts, lg) ==
    [i \in 1..Len(ts) |->
        <<ts[i][1], [ts[i][2] EXCEPT !.hooks = IF lg.tool_hooks THEN "Hooks" ELSE "None"]>>]

NoLogger == [present |-> FALSE, tool_hooks |-> FALSE, selection_hooks |-> FALSE]

Loggers == {NoLogger} \cup [present : {TRUE}, tool_hooks : BOOLEAN, selection_hooks : BOOLEAN]

\* the steps a plan may hold: {tool, reasoning} and an optional input_mapping
StepOptions ==
    { [tool |-> "conv", reasoning |-> "why", input_mapping |-> EmptyDict],
      [tool |-> "calc", reasoning |-> "why", input_mapping |-> EmptyDict],
      [tool |-> "calc", reasoning |-> "why", input_mapping |-> [x |-> <<"conv", "y">>]],
      [tool |-> "ghost", reasoning |-> "why", input_mapping |-> EmptyDict] }

\* the TaskAnalysis objects generate_structured may return
Plans == {[execution_plan |-> ep] : ep \in UNION {[1..n -> StepOptions] : n \in 0..MaxPlanLen}}

\* what generate_structured may raise (openai_provider.py lines 146-154)
ModelErrors ==
    { Exc("ValueError", <<"Failed to parse structured output: ", "validation error">>),
      Exc("APIError", <<"model call failed">>) }

ToolResults == {VDict([y |-> VInt(3)]), VStr("r")}
ToolErrors == {Exc("RuntimeError", <<"boom">>)}
FormatResults == {VStr("out")}
FormatErrors == {Exc("TypeError", <<"format failed">>)}

States == {PlainDict, AgentState, set_variable(AgentState, "x", VInt(1))}

\* Agent.__init__ (lines 46-58) followed by the subclass's registrations
Init ==
    /\ logger \in Loggers
    /\ LET reg == RegisterAll([tools |-> <<>>, impls |-> EmptyDict], Catalogue)
       IN  /\ tools = (IF logger.present THEN _setup_logger(reg.tools, logger) ELSE reg.tools)
           /\ _implementations = reg.impls
    /\ lastCall = NoCall
    /\ llm_provider \in {"None", "Provider"}
    /\ state \in States
    /\ message_history = <<>>
    /\ current_task = 0
    /\ tasks = [r \in RunIds |-> None]
    /\ _current_plan = None
    /\ attrs = EmptyDict
    /\ rl = [r \in RunIds |-> Idle]
    /\ events = <<>>

Next ==
    \/ \E ls1, ls2 \in Choice(HasLogger) : Run(1, "task", ls1, ls2)
    \/ \E plan \in Plans, hk \in {h \in HookChoices : ~h.aft} : PlanReturns(1, plan, hk)
    \/ \E le \in BOOLEAN : PlanningLogRaises(1, le)
    \/ \E e \in ModelErrors, le \in Choice(HasLogger) : PlanRaises(1, e, le)
    \/ \E result \in ToolResults, hk \in HookChoices : ToolReturns(1, result, hk)
    \/ \E e \in ToolErrors, hk \in {h \in HookChoices : ~h.sel /\ ~h.bef /\ ~h.aft} :
          ToolRaises(1, e, hk)
    \/ \E result \in FormatResults, ld \in Choice(HasLogger) : FormatReturns(1, result, ld)
    \/ \E e \in FormatErrors : FormatRaises(1, e)

Spec == Init /\ [][Next]_vars

(***************************************************************************)
(* The registry on its own: register and get_tools_by_tags called in any    *)
(* order with any metadata                                                  *)
(***************************************************************************)
RegistryNames == {"a", "b"}
RegistryTags == {<<>>, <<"p">>, <<"q">>, <<"p", "q">>}
Metadatas ==
    {Metadata(n, d, tg, Schema(EmptyDict, <<>>)) :
        n \in RegistryNames, d \in {"d1", "d2"}, tg \in RegistryTags}
Implementations == {"Impl1", "Impl2"}

InitRegistry ==
    /\ tools = <<>>
    /\ _implementations = EmptyDict
    /\ lastCall = NoCall
    /\ logger = NoLogger
    /\ llm_provider = "None"
    /\ state = PlainDict
    /\ message_history = <<>>
    /\ current_task = 0
    /\ tasks = [r \in RunIds |-> None]
    /\ _current_plan = None
    /\ attrs = EmptyDict
    /\ rl = [r \in RunIds |-> Idle]
    /\ events = <<>>

\* a call of tool_registry.register(metadata=..., implementation=...)
Register(metadata, implementation) ==
    /\ \E reg \in {register(Registry, metadata, implementation)} :
        /\ tools' = reg.tools
        /\ _implementations' = reg.impls
        /\ lastCall' = [op |-> "register", metadata |-> metadata,
                        implementation |-> implementation, result |-> reg.result]
    /\ UNCHANGED <<logger, llm_provider, state, message_history, current_task, tasks,
                   _current_plan, attrs, rl, events>>

\* a call of tool_registry.get_tools_by_tags(tags)
GetToolsByTags(tags) ==
    /\ lastCall' = [op |-> "get_tools_by_tags", tags |-> tags,
                    result |-> Returned(get_tools_by_tags(tags))]
    /\ UNCHANGED <<tools, _implementations, logger, llm_provider, state, message_history,
                   current_task, tasks, _current_plan, attrs, rl, events>>

NextRegistry ==
    \/ \E m \in Metadatas, impl \in Implementations : Register(m, impl)
    \/ \E tags \in RegistryTags : GetToolsByTags(tags)

SpecRegistry == InitRegistry /\ [][NextRegistry]_vars

(***************************************************************************)
(* The state store and input resolution on their own: the AgentState        *)
(* methods and _map_inputs_to_tool called in any order                      *)
(***************************************************************************)
\* the tools of the agent whose inputs are resolved
ResolveCatalogue ==
    << Metadata("t", "needs x", <<>>, Schema([x |-> [type |-> "number"]], <<"x">>)),
       Metadata("s", "may take x", <<>>, Schema([x |-> [type |-> "string"]], <<>>)),
       Metadata("u", "context and a number", <<>>,
                Schema([news_context |-> [type |-> "string"], x |-> [type |-> "number"]],
                       <<>>)) >>

\* the attributes a caller or subclass may have set on the agent: none
\* (Agent.__init__), context_data, task_parameters (SimpleAgent.run), both
TaskParameters == [news_context |-> VStr("param"), x |-> VStr("px")]
AttrOptions ==
    { EmptyDict,
      [context_data |-> VStr("ctx")],
      [task_parameters |-> TaskParameters],
      [context_data |-> VStr("ctx"), task_parameters |-> TaskParameters] }

StoreNames == {"x", "other"}
StoreValues == {None, VInt(1), VInt(2), VDict([y |-> VInt(3)]), VDict(EmptyDict)}
InputMappings ==
    {EmptyDict, [x |-> <<"other", "y">>], [x |-> <<"other">>], [x |-> <<"lit">>],
     [x |-> <<"other", "z">>], [x |-> <<"other", "y", "z">>],
     [w |-> <<"lit">>, x |-> <<"other", "y">>]}

InitState ==
    /\ LET reg == RegisterAll([tools |-> <<>>, impls |-> EmptyDict], ResolveCatalogue)
       IN  tools = reg.tools /\ _implementations = reg.impls
    /\ lastCall = NoCall
    /\ logger = NoLogger
    /\ llm_provider = "None"
    /\ state \in {PlainDict, AgentState}
    /\ message_history = <<>>
    /\ current_task = 0
    /\ tasks = [r \in RunIds |-> None]
    /\ _current_plan = None
    /\ attrs \in AttrOptions
    /\ rl = [r \in RunIds |-> Idle]
    /\ events = <<>>

\* state.set_variable(name, value)
SetVariable(name, value) ==
    /\ state.kind = "AgentState"
    /\ state' = set_variable(state, name, value)
    /\ lastCall' = [op |-> "set_variable", name |-> name, value |-> value]
    /\ UNCHANGED <<tools, _implementations, logger, llm_provider, message_history,
                   current_task, tasks, _current_plan, attrs, rl, events>>

\* state.set_tool_result(tool_name, result)
SetToolResult(tool_name, result) ==
    /\ state.kind = "AgentState"
    /\ state' = set_tool_result(state, tool_name, result)
    /\ lastCall' = [op |-> "set_tool_result", tool_name |-> tool_name, result |-> result]
    /\ UNCHANGED <<tools, _implementations, logger, llm_provider, message_history,
                   current_task, tasks, _current_plan, attrs, rl, events>>

\* state.clear()
Clear ==
    /\ state.kind = "AgentState"
    /\ state' = clear(state)
    /\ lastCall' = [op |-> "clear"]
    /\ UNCHANGED <<tools, _implementations, logger, llm_provider, message_history,
                   current_task, tasks, _current_plan, attrs, rl, events>>

\* await agent._map_inputs_to_tool(tool_name, task, input_mapping)
MapInputs(tool_name, task, input_mapping) ==
    /\ lastCall' = [op |-> "_map_inputs_to_tool", tool_name |-> tool_name, task |-> task,
                    input_mapping |-> input_mapping, state |-> state,
                    result |-> _map_inputs_to_tool(Registry, state, attrs, tool_name,
                                                   task, input_mapping)]
    /\ UNCHANGED <<tools, _implementations, logger, llm_provider, state, message_history,
                   current_task, tasks, _current_plan, attrs, rl, events>>

NextState ==
    \/ \E name \in {"x", "news_context"}, value \in {VInt(1)} : SetVariable(name, value)
    \/ \E tool_name \in StoreNames, result \in StoreValues : SetToolResult(tool_name, result)
    \/ Clear
    \/ \E tool_name \in {"t", "s", "u", "ghost"}, input_mapping \in InputMappings :
          MapInputs(tool_name, "task", input_mapping)

SpecState == InitState /\ [][NextState]_vars

(***************************************************************************)
(* Registry uniqueness                                                      *)
(***************************************************************************)
\* a step that is a register call for a name the registry already holds
DuplicateRegisterStep ==
    /\ lastCall'.op = "register"
    /\ OHas(tools, lastCall'.metadata.name)

\* C1 as stated: a register call whose name is already present raises
\* DuplicateToolError and leaves both maps of the registry as they were
C1_DuplicateRaisesDuplicateToolError ==
    [][DuplicateRegisterStep =>
          /\ lastCall'.result.raised
          /\ lastCall'.result.exc.type = "DuplicateToolError"
          /\ tools' = tools
          /\ _implementations' = _implementations]_vars

\* C1 amended: a register call whose name is already present raises
\* ValueError("Tool <name> is already registered") and leaves both maps of
\* the registry as they were (the first contract and implementation are kept)
C1_DuplicateRaisesValueError ==
    [][DuplicateRegisterStep =>
          /\ lastCall'.result.raised
          /\ lastCall'.result.exc =
                 Exc("ValueError", <<"Tool ", lastCall'.metadata.name, " is already registered">>)
          /\ tools' = tools
          /\ _implementations' = _implementations]_vars

\* a failed registration that offered another contract and implementation
\* than the ones the registry holds for the name
C1_Witness ==
    /\ lastCall.op = "register"
    /\ lastCall.result.raised
    /\ get_tool(lastCall.metadata.name).description # lastCall.metadata.description
    /\ get_implementation(lastCall.metadata.name) # lastCall.implementation

(***************************************************************************)
(* Input-resolution precedence                                              *)
(***************************************************************************)
\* the case of C3 at a call of _map_inputs_to_tool: the tool declares x, the
\* state holds variable x = 1 and the result 2 under x, the mapping sends x
\* to "other.y", and other's result is {y: 3}
C3_Case ==
    /\ lastCall.op = "_map_inputs_to_tool"
    /\ lastCall.state.kind = "AgentState"
    /\ OHas(tools, lastCall.tool_name)
    /\ "x" \in DOMAIN Get(get_tool(lastCall.tool_name).input_schema, "properties", EmptyDict)
    /\ has_variable(lastCall.state, "x")
    /\ get_variable(lastCall.state, "x", None) = VInt(1)
    /\ get_tool_result(lastCall.state, "x", None) = VInt(2)
    /\ get_tool_result(lastCall.state, "other", None) = VDict([y |-> VInt(3)])
    /\ lastCall.input_mapping = [x |-> <<"other", "y">>]

\* C3: in that case _map_inputs_to_tool binds x to 3: the explicit mapping
\* beats the tool result stored under the name, which beats the variable
C3_ExplicitMappingWins ==
    C3_Case => /\ ~lastCall.result.raised
               /\ lastCall.result.value = [x |-> VInt(3)]

C3_Witness ==
    /\ C3_Case
    /\ ~lastCall.result.raised
    /\ lastCall.result.value["x"] = VInt(3)

(***************************************************************************)
(* Agent.run: what the properties below read                                *)
(***************************************************************************)
\* the run under study, its TaskExecution and its plan's steps
R == rl[1]
T == tasks[1]
Exited == R.pc \in {"returned", "raised"}
PlanSteps == IF R.plan = None THEN <<>> ELSE R.plan.execution_plan

IsExecute(ev) == ev.e = "execute"
IsStepEvent(ev) ==
    ev.e \in {"_map_inputs_to_tool", "after_selection", "before_execution", "execute",
              "after_execution"}

\* the calls of tool implementations so far, in order
Executes == SelectSeq(events, IsExecute)

\* how many events of a kind (for one step, when i > 0)
Count(kind, i) ==
    Cardinality({j \in 1..Len(events) :
                    events[j].e = kind /\ (i = 0 \/ events[j].i = i)})

\* the steps of the plan whose tool the registry does not hold
UnknownSteps == {k \in 1..Len(PlanSteps) : ~OHas(tools, PlanSteps[k].tool)}
FirstUnknown == CHOOSE k \in UnknownSteps : \A j \in UnknownSteps : k <= j

\* "mentions": the word is one of the pieces of the message
Mentions(str, word) == \E j \in 1..Len(str.s) : str.s[j] = word

\* at which stage the run failed, by the exception it raised
PlanningFailed == R.pc = "raised" /\ R.exc \in ModelErrors \cup {NotConfigured}
ResolutionFailed ==
    /\ R.pc = "raised"
    /\ \/ R.exc.type = "AttributeError"
       \/ R.exc.type = "ValueError" /\ R.exc.msg[1] = "Could not map inputs for tool "
ToolFailed ==
    /\ R.pc = "raised"
    /\ R.exc.type = "ToolExecutionError"
    /\ R.exc.original_error \in ToolErrors
FormatFailed == R.pc = "raised" /\ R.exc \in FormatErrors

(***************************************************************************)
(* Sequential ordering                                                      *)
(***************************************************************************)
\* C2 as stated: while the k-th step's tool runs (every earlier step has
\* succeeded), the ToolContext built for it lists k-1 previous results
C2_ContextSeesEarlierResults ==
    R.pc = "executing" => Len(R.ctx.previous_results) = R.i - 1

(***************************************************************************)
(* Unknown tool in plan                                                     *)
(***************************************************************************)
\* the run got to the first step that names an unknown tool
C4_AtUnknownStep ==
    /\ UnknownSteps # {}
    /\ Len(R.results) = FirstUnknown - 1
    /\ R.i = FirstUnknown

\* what C4 says in both its readings: nothing is done for the unknown step
\* or after it, the run raises ToolNotFoundError there and the task fails
C4_Common ==
    /\ UnknownSteps # {} =>
          /\ \A j \in 1..Len(events) : IsStepEvent(events[j]) => events[j].i < FirstUnknown
          /\ Count("_format_result", 0) = 0
          /\ FirstUnknown = 1 => Executes = <<>>
    /\ C4_AtUnknownStep =>
          /\ R.pc = "raised"
          /\ R.exc.type = "ToolNotFoundError"
          /\ T.status = "failed"
          /\ T.end_time = "stamped"

\* C4 as stated: ... and the error mentions ToolNotFoundError
C4_ErrorMentionsToolNotFoundError ==
    /\ C4_Common
    /\ C4_AtUnknownStep => T.error # None /\ Mentions(T.error, "ToolNotFoundError")

\* C4 amended: for any plan with a step whose tool is not registered, run
\* raises ToolNotFoundError at that step without input resolution, hooks or
\* a tool call for it, runs no later step, and the task ends failed with
\* error equal to the exception's message "Tool <name> not found" (which
\* does not contain the class name); no tool is called when it is step one
C4_UnknownToolAborts ==
    /\ C4_Common
    /\ C4_AtUnknownStep =>
          T.error = Str(Exc("ToolNotFoundError",
                            <<"Tool ", PlanSteps[FirstUnknown].tool, " not found">>))

\* an unknown second step is reached after the first step's tool ran
C4_Witness ==
    /\ C4_AtUnknownStep
    /\ FirstUnknown = 2
    /\ R.pc = "raised"
    /\ Len(Executes) = 1
    /\ T.error = Str(Exc("ToolNotFoundError", <<"Tool ", "ghost", " not found">>))

(***************************************************************************)
(* Failure finalization                                                     *)
(***************************************************************************)
\* C5 as stated: when the tool of step k raises, the task is failed, its
\* end_time is set and its steps are the k-1 steps executed before, in order
C5_PartialHistoryKept ==
    ToolFailed =>
        /\ T.status = "failed"
        /\ T.end_time # "None"
        /\ Len(T.steps) = R.i - 1
        /\ \A j \in 1..Len(T.steps) : T.steps[j].tool_name = PlanSteps[j].tool

(***************************************************************************)
(* Scoped finalizer                                                         *)
(***************************************************************************)
\* C6 as stated: whenever run has exited, end_time is set, _current_plan is
\* None and the status is no longer in_progress
C6_FinalizerOnEveryExit ==
    Exited =>
        /\ T.end_time # "None"
        /\ _current_plan = None
        /\ T.status # "in_progress"

(***************************************************************************)
(* Strictly sequential steps                                                *)
(***************************************************************************)
\* the position of a step's event within its step
Rank(ev) ==
    CASE ev.e = "_map_inputs_to_tool" -> 1
      [] ev.e = "after_selection" -> 2
      [] ev.e = "before_execution" -> 3
      [] ev.e = "execute" -> 4
      [] ev.e = "after_execution" -> 5

StepEvents == SelectSeq(events, IsStepEvent)

\* the last result the steps before step i produced for a tool
LatestBefore(i, tool_name) ==
    LET js == {j \in 1..(i - 1) : R.results[j][1] = tool_name}
    IN  R.results[CHOOSE j \in js : \A k \in js : k <= j][2]

\* C7: within one run at most one tool call is in flight, and nothing of
\* step i+1 (input resolution, hooks, tool call) happens before step i's
\* tool call, its hooks and its write to the state store are complete
C7_StrictlySequential ==
    /\ Len(Executes) - Len(R.results) \in {0, 1}
    /\ R.pc = "executing" => Len(Executes) = Len(R.results) + 1
    /\ \A j \in 1..(Len(StepEvents) - 1) :
          \/ StepEvents[j].i < StepEvents[j + 1].i /\ StepEvents[j + 1].i <= Len(R.results) + 1
          \/ /\ StepEvents[j].i = StepEvents[j + 1].i
             /\ \/ Rank(StepEvents[j]) < Rank(StepEvents[j + 1])
                \/ Rank(StepEvents[j]) = 5 /\ Rank(StepEvents[j + 1]) = 5
    /\ \A j \in 1..Len(StepEvents) :
          \* a step that has begun finds every earlier step complete: its
          \* result returned and written to the history
          /\ Len(R.results) >= StepEvents[j].i - 1
          /\ Len(message_history) >= StepEvents[j].i - 1
    /\ R.pc = "executing" /\ R.i >= 2 =>
          \* while a step's tool is in flight the store and the history hold
          \* what the earlier steps wrote, and nothing else
          /\ state.kind # "dict"
          /\ Len(message_history) = R.i - 1
          /\ state.last_tool = PlanSteps[R.i - 1].tool
          /\ \A k \in 1..(R.i - 1) :
                /\ OHas(state.tool_results, PlanSteps[k].tool)
                /\ OGet(state.tool_results, PlanSteps[k].tool, None)
                     = LatestBefore(R.i, PlanSteps[k].tool)
                /\ message_history[k].tool_name = PlanSteps[k].tool
                /\ message_history[k].result = R.results[k][2]
    /\ \A j \in 1..Len(StepEvents) :
          \* hooks attached: the earlier step's after hook has been called
          /\ Rank(StepEvents[j]) = 1
          /\ StepEvents[j].i >= 2
          /\ HasToolHooks(PlanSteps[StepEvents[j].i - 1].tool)
          => /\ j > 1
             /\ Rank(StepEvents[j - 1]) = 5
             /\ StepEvents[j - 1].i = StepEvents[j].i - 1

\* the third step's tool is in flight, hooks attached, after two different
\* results of the same tool
C7_Witness ==
    /\ R.pc = "executing"
    /\ R.i = 3
    /\ PlanSteps[1].tool = PlanSteps[2].tool
    /\ R.results[1][2] # R.results[2][2]
    /\ HasToolHooks(PlanSteps[1].tool)

(***************************************************************************)
(* Plan order is authoritative                                              *)
(***************************************************************************)
\* C8: the tools whose implementations the run invokes are, in order, a
\* prefix of the plan's steps; all of the plan's steps once the loop is
\* over; a tool the plan names twice is invoked twice
C8_PlanOrderAuthoritative ==
    /\ Len(Executes) <= Len(PlanSteps)
    /\ \A j \in 1..Len(Executes) :
          /\ Executes[j].i = j
          /\ Executes[j].tool = PlanSteps[j].tool
    /\ R.pc \in {"formatting", "returned"} \/ FormatFailed => Len(Executes) = Len(PlanSteps)
    /\ R.pc = "executing" => Len(Executes) = R.i

\* a run returns after a plan that names the same tool in steps 1 and 3
C8_Witness ==
    /\ R.pc = "returned"
    /\ Len(PlanSteps) = 3
    /\ PlanSteps[1].tool = PlanSteps[3].tool
    /\ PlanSteps[2].tool # PlanSteps[1].tool
    /\ Len(Executes) = 3

(***************************************************************************)
(* No retry, fail-fast                                                      *)
(***************************************************************************)
\* C9: one failure of planning, input resolution, tool execution or
\* formatting makes the task failed; the failing operation was attempted
\* once, no later step is started and no formatting follows a failed step
C9_FailFastNoRetry ==
    /\ Count("generate_structured", 0) <= 1
    /\ Count("_format_result", 0) <= 1
    /\ \A k \in 1..Len(PlanSteps) :
          /\ Count("_map_inputs_to_tool", k) <= 1
          /\ Count("execute", k) <= 1
    /\ PlanningFailed \/ ResolutionFailed \/ ToolFailed \/ FormatFailed =>
          /\ T.status = "failed"
          /\ T.error = Str(R.exc)
    /\ PlanningFailed =>
          /\ StepEvents = <<>>
          /\ Count("_format_result", 0) = 0
          /\ R.exc # NotConfigured => Count("generate_structured", 0) = 1
    /\ ResolutionFailed =>
          /\ Count("_map_inputs_to_tool", R.i) = 1
          /\ Count("execute", R.i) = 0
    /\ ToolFailed => Count("execute", R.i) = 1
    /\ ResolutionFailed \/ ToolFailed =>
          /\ \A j \in 1..Len(StepEvents) : StepEvents[j].i <= R.i
          /\ Count("_format_result", 0) = 0
    /\ FormatFailed => Count("_format_result", 0) = 1

\* the tool of the second of three steps fails
C9_Witness ==
    /\ ToolFailed
    /\ R.i = 2
    /\ Len(PlanSteps) = 3
    /\ Len(Executes) = 2
    /\ T.status = "failed"

(***************************************************************************)
(* Planning failure                                                         *)
(***************************************************************************)
\* C10 as stated: when planning fails (no provider, the model call raises,
\* the response does not validate) run raises PlanningError, the model is
\* called at most once, no hook or tool runs, the state store is not
\* written and the task ends failed
C10_PlanningFailureRaisesPlanningError ==
    PlanningFailed =>
        /\ R.exc.type = "PlanningError"
        /\ Count("generate_structured", 0) <= 1
        /\ StepEvents = <<>>
        /\ message_history = <<>>
        /\ state.kind # "dict" => state.tool_results = <<>> /\ state.last_tool = "None"
        /\ T.status = "failed"

(***************************************************************************)
(* Before/after hook pairs                                                  *)
(***************************************************************************)
\* the positions in events of the calls of one kind made for step k
At(kind, k) == {j \in 1..Len(events) : events[j].e = kind /\ events[j].i = k}

\* step k is over: it returned its result, or the run ended in it
StepReturned(k) == Len(R.results) >= k
StepFailed(k) == R.pc = "raised" /\ R.i = k /\ Len(R.results) = k - 1
HooksOn(k) == k \in 1..Len(PlanSteps) /\ ToolKnown(PlanSteps[k].tool)
                 /\ HasToolHooks(PlanSteps[k].tool)

\* the after_execution calls of step k that carry an error / a result
AfterWithError(k) == {j \in At("after_execution", k) : events[j].error # NoExc}
AfterWithResult(k) == {j \in At("after_execution", k) : events[j].error = NoExc}

\* C11 as stated: a step that fails (unknown tool, input resolution, before
\* hook, tool execution) with hooks attached shows exactly one
\* before_execution followed by exactly one after_execution with the error
C11_EveryFailedStepShowsPair ==
    \A k \in 1..Len(PlanSteps) :
        /\ StepFailed(k)
        /\ logger.present /\ logger.tool_hooks
        /\ \/ R.exc.type = "ToolNotFoundError"
           \/ ResolutionFailed
           \/ ToolFailed
           \/ At("before_execution", k) # {}
        => /\ Cardinality(At("before_execution", k)) = 1
           /\ Cardinality(At("after_execution", k)) = 1
           /\ AfterWithError(k) # {}

\* C11 amended: with hooks attached to the step's tool, a step that fails
\* inside call_tool (before hook, missing implementation, tool execution,
\* state write) shows exactly one before_execution and then exactly one
\* after_execution carrying the error, as the last call of the step; a step
\* that fails before call_tool (unknown tool, input resolution, selection
\* hook) shows neither hook; a step that returns shows exactly one
\* before_execution and then one after_execution carrying its result; when
\* that after_execution itself raises, after_execution is called a second
\* time with the hook's error
C11_HookPairs ==
    \A k \in 1..Len(PlanSteps) :
        /\ Cardinality(At("before_execution", k)) <= 1
        /\ Cardinality(AfterWithError(k)) <= 1
        /\ Cardinality(AfterWithResult(k)) <= 1
        /\ \A a \in At("after_execution", k) : \E b \in At("before_execution", k) : b < a
        /\ \A a \in AfterWithError(k) :
              /\ a = Len(events)
              /\ StepFailed(k)
              /\ events[a].result = None
              /\ \A a2 \in AfterWithResult(k) : a2 < a /\ events[a].error = HookError
        /\ ~HooksOn(k) => At("before_execution", k) = {} /\ At("after_execution", k) = {}
        /\ HooksOn(k) /\ StepReturned(k) =>
              /\ Cardinality(At("before_execution", k)) = 1
              /\ AfterWithError(k) = {}
              /\ \E a \in AfterWithResult(k) : events[a].result = R.results[k][2]
        /\ HooksOn(k) /\ StepFailed(k) =>
              \/ \* failed before call_tool's try
                 /\ At("before_execution", k) = {}
                 /\ At("execute", k) = {}
                 /\ \/ ResolutionFailed
                    \/ R.exc = HookError /\ At("after_selection", k) # {}
              \/ \* failed inside call_tool's try
                 /\ Cardinality(At("before_execution", k)) = 1
                 /\ Cardinality(AfterWithError(k)) = 1
                 /\ ToolFailed =>
                       \A a \in AfterWithError(k) :
                           /\ events[a].error = R.exc
                           /\ AfterWithResult(k) = {}
                           /\ \E x \in At("execute", k) : x < a

\* hooks attached, the second step's tool raises: one before, one after
\* with the ToolExecutionError
C11_Witness ==
    /\ StepFailed(2)
    /\ ToolFailed
    /\ HooksOn(2)
    /\ Cardinality(At("before_execution", 2)) = 1
    /\ \E a \in AfterWithError(2) : events[a].error.type = "ToolExecutionError"

(***************************************************************************)
(* Hooks cannot alter execution                                             *)
(***************************************************************************)
\* what the tools and the formatter do when called: for each step, the
\* result its tool returns or the error it raises; likewise the formatter
Behaviours ==
    [tools : [1..MaxPlanLen -> {Returned(v) : v \in ToolResults}
                                  \cup {Raised(e) : e \in ToolErrors}],
     format : {Returned(v) : v \in FormatResults} \cup {Raised(e) : e \in FormatErrors}]

\* how a run with logger None and every tool.hooks None ends
Ended(status, output, st, executes) ==
    [status |-> status, output |-> output, state |-> st, executes |-> executes]

\* run's loop (lines 277-283) from step i on when self.logger is None and
\* tool.hooks is None: every "if tool.hooks" / "if self.logger" is skipped
RECURSIVE PlainLoop(_, _, _, _, _, _)
PlainLoop(plan, task, beh, i, st, executes) ==
    IF i > Len(plan.execution_plan)
    THEN (IF beh.format.raised THEN Ended("failed", None, st, executes)
          ELSE Ended("completed", beh.format.value, st, executes))
    ELSE LET step == plan.execution_plan[i]
             mapped == _map_inputs_to_tool(Registry, st, attrs, step.tool, task,
                                           step.input_mapping)
         IN  IF ~ToolKnown(step.tool) \/ mapped.raised
                \/ get_implementation(step.tool) = "None"
             THEN Ended("failed", None, st, executes)
             ELSE LET called == Append(executes, <<step.tool, mapped.value>>)
                  IN  IF beh.tools[i].raised \/ st.kind = "dict"
                      THEN Ended("failed", None, st, called)
                      ELSE PlainLoop(plan, task, beh, i + 1,
                                     set_tool_result(st, step.tool, beh.tools[i].value),
                                     called)

\* run (lines 271-301) with no logger and no hooks; plan None: planning failed
PlainRun(plan, task, beh, st) ==
    IF plan = None THEN Ended("failed", None, st, <<>>)
    ELSE PlainLoop(plan, task, beh, 1, st, <<>>)

\* the same four observations of the run under study
Observed ==
    Ended(T.status, T.output, state,
          [j \in 1..Len(Executes) |-> <<Executes[j].tool, Executes[j].inputs>>])

\* the behaviours that agree with what the tools and the formatter did in
\* the run under study
Agrees(beh) ==
    /\ \A k \in 1..Len(R.results) : beh.tools[k] = Returned(R.results[k][2])
    /\ ToolFailed => beh.tools[R.i] = Raised(R.exc.original_error)
    /\ R.pc = "raised" /\ R.exc.type = "ToolExecutionError" /\ ~ToolFailed
          => ~beh.tools[R.i].raised
    /\ R.pc = "returned" => beh.format = Returned(R.ret)
    /\ FormatFailed => beh.format = Raised(R.exc)

\* a hook or logger call raised in the run under study
HookRaised == R.exc.type \in {"HookError", "LoggerError"}

PlanKnown == R.plan # None \/ PlanningFailed

MaxRunsPlanLen == 1

\* the steps of the two runs' plans: conv, calc fed from conv's result, ping
RunsStepOptions ==
    { [tool |-> "conv", reasoning |-> "why", input_mapping |-> EmptyDict],
      [tool |-> "calc", reasoning |-> "why", input_mapping |-> [x |-> <<"conv", "y">>]],
      [tool |-> "ping", reasoning |-> "why", input_mapping |-> EmptyDict] }

\* the agent's tools and one more whose inputs are all optional
RunsCatalogue ==
    Catalogue \o << Metadata("ping", "takes nothing", <<>>,
                             Schema([n |-> [type |-> "number"]], <<>>)) >>

RunsPlans ==
    {[execution_plan |-> ep] :
        ep \in UNION {[1..n -> RunsStepOptions] : n \in 0..MaxRunsPlanLen}}

RunsToolResults == {VDict([y |-> VInt(3)])}

InitRuns ==
    /\ logger = NoLogger
    /\ LET reg == RegisterAll([tools |-> <<>>, impls |-> EmptyDict], RunsCatalogue)
       IN  /\ tools = reg.tools
           \* ping registered with its class, or with implementation=None
           /\ _implementations \in {reg.impls, [reg.impls EXCEPT !["ping"] = "None"]}
    /\ lastCall = NoCall
    /\ llm_provider = "Provider"
    /\ state = AgentState
    /\ message_history = <<>>
    /\ current_task = 0
    /\ tasks = [r \in RunIds |-> None]
    /\ _current_plan = None
    /\ attrs = EmptyDict
    /\ rl = [r \in RunIds |-> Idle]
    /\ events = <<>>

NextRuns ==
    \E r \in RunIds :
        \/ Run(r, "task", FALSE, FALSE)
        \/ \E plan \in RunsPlans, hk \in HookChoices : PlanReturns(r, plan, hk)
        \/ \E e \in ModelErrors : PlanRaises(r, e, FALSE)
        \/ \E result \in RunsToolResults, hk \in HookChoices : ToolReturns(r, result, hk)
        \/ \E e \in ToolErrors, hk \in HookChoices : ToolRaises(r, e, hk)
        \/ \E result \in FormatResults : FormatReturns(r, result, FALSE)
        \/ \E e \in FormatErrors : FormatRaises(r, e)

SpecRuns == InitRuns /\ [][NextRuns]_vars

(***************************************************************************)
(* Cross-task isolation                                                     *)
(***************************************************************************)
RunExited(r) == rl[r].pc \in {"returned", "raised"}

\* the state store as run r alone would have left it: what it found, then
\* the results of its own steps
RECURSIVE WriteAll(_, _)
WriteAll(st, results) ==
    IF results = <<>> THEN st
    ELSE WriteAll(set_tool_result(st, Head(results)[1], Head(results)[2]), Tail(results))

\* the inputs of the step a run with locals l is executing, resolved
\* against a store
ResolvedAgainst(l, st) ==
    LET step == l.plan.execution_plan[l.i]
    IN  _map_inputs_to_tool(Registry, st, attrs, step.tool, l.task, step.input_mapping)

\* C13 as stated: with two runs of one agent interleaved at their awaits,
\* a task's TaskExecution (end_time, status, error, output) is written only
\* by its own run, and the inputs a run resolves come from an empty store
\* plus its own results, never from a result the other run wrote
C13_CrossTaskIsolation ==
    [][ \A r \in RunIds :
           /\ tasks'[r] # tasks[r] => rl'[r] # rl[r]
           /\ rl'[r].pc = "executing" /\ rl'[r] # rl[r] =>
                 ResolvedAgainst(rl'[r], WriteAll(AgentState, rl'[r].results))
                    = Returned(rl'[r].inputs) ]_vars

(***************************************************************************)
(* Fresh state per run                                                      *)
(***************************************************************************)
\* C14 as stated: when a run starts on an agent that has completed an
\* earlier run, the state store holds no tool results, no variables and no
\* last_tool
C14_FreshStatePerRun ==
    [][ \A r \in RunIds :
           /\ rl[r].pc = "idle"
           /\ rl'[r].pc # "idle"
           /\ \E q \in RunIds \ {r} : RunExited(q)
           => /\ state.kind = "AgentState"
              /\ state.tool_results = <<>>
              /\ state.variables = EmptyDict
              /\ state.last_tool = "None" ]_vars

(***************************************************************************)
(* Idempotent overwrite                                                     *)
(***************************************************************************)
\* C15: every set_tool_result(n, v) leaves get_tool_result(n) = v, one
\* entry for n, last_tool = n and the other names' results as they were; so
\* after any sequence of calls a name maps to the result of its latest call
C15_IdempotentOverwrite ==
    [][ lastCall'.op = "set_tool_result" =>
           LET n == lastCall'.tool_name
           IN  /\ get_tool_result(state', n, None) = lastCall'.result
               /\ get_last_tool_result(state', None) = lastCall'.result
               /\ state'.last_tool = n
               /\ Cardinality({i \in 1..Len(state'.tool_results) :
                                  state'.tool_results[i][1] = n}) = 1
               /\ \A m \in StoreNames \ {n} :
                     /\ has_tool_result(state', m) = has_tool_result(state, m)
                     /\ get_tool_result(state', m, None) = get_tool_result(state, m, None)
               /\ has_tool_result(state, n) => Len(state'.tool_results) = Len(state.tool_results)
      ]_vars

\* "x" was set, then "other", then "x" again with another result: "x" keeps
\* its place and holds the later result
C15_Witness ==
    /\ lastCall.op = "set_tool_result"
    /\ lastCall.tool_name = "x"
    /\ lastCall.result = VInt(2)
    /\ state.tool_results = << <<"x", VInt(2)>>, <<"other", VInt(1)>> >>
    /\ state.last_tool = "x"

(***************************************************************************)
(* Zero-required-input tools                                                *)
(***************************************************************************)
\* run r is at a step that calls ping (required: [], one optional number)
AtPing(r) ==
    /\ rl[r].plan # None
    /\ rl[r].i \in 1..Len(rl[r].plan.execution_plan)
    /\ rl[r].plan.execution_plan[rl[r].i].tool = "ping"

\* C16: a tool with required: [] for which no property can be mapped gets
\* the empty input object: _map_inputs_to_tool returns {} whatever the
\* store holds, the step is not rejected and the tool is called with {}
C16_ZeroRequiredInputs ==
    /\ _map_inputs_to_tool(Registry, state, attrs, "ping", "task", EmptyDict)
         = Returned(EmptyDict)
    /\ \A r \in RunIds :
          /\ AtPing(r) /\ rl[r].pc = "executing" => rl[r].inputs = EmptyDict
          /\ AtPing(r) /\ rl[r].pc = "raised" =>
                /\ Len(rl[r].results) = rl[r].i - 1
                /\ rl[r].exc.msg[1] # "Could not map inputs for tool "
                /\ get_implementation("ping") # "None" => rl[r].exc.type = "ToolExecutionError"
    /\ \A j \in 1..Len(events) :
          events[j].e = "execute" /\ events[j].tool = "ping" => events[j].inputs = EmptyDict

\* ping is in flight with no arguments while the store holds a result
C16_Witness ==
    /\ get_implementation("ping") # "None"
    /\ AtPing(2)
    /\ rl[2].pc = "executing"
    /\ rl[2].inputs = EmptyDict
    /\ state.tool_results # <<>>
    /\ \E j \in 1..Len(events) : events[j].e = "execute" /\ events[j].tool = "ping"

(***************************************************************************)
(* Unbound required property                                                *)
(***************************************************************************)
\* the required list of a registered tool
RequiredOf(tool_name) == Get(OGet(tools, tool_name, None).input_schema, "required", <<>>)

\* C17 as stated, its last clause: _map_inputs_to_tool (with or without an
\* explicit mapping) never returns an input object that lacks a property of
\* the tool's required list; leaving one unbound is an error
C17_UnboundRequiredIsError ==
    /\ lastCall.op = "_map_inputs_to_tool"
    /\ OHas(tools, lastCall.tool_name)
    /\ ~lastCall.result.raised
    => \A j \in 1..Len(RequiredOf(lastCall.tool_name)) :
          RequiredOf(lastCall.tool_name)[j] \in DOMAIN lastCall.result.value

(***************************************************************************)
(* get_tools_by_tags                                                        *)
(***************************************************************************)
Elems(seq) == {seq[j] : j \in 1..Len(seq)}

\* C18: get_tools_by_tags(tags) returns exactly the registered tools whose
\* tags include every query tag, each once, in registration order; all the
\* tools for an empty query; and it leaves the registry as it was
C18_ByTagsIsAnd ==
    [][ lastCall'.op = "get_tools_by_tags" =>
           LET res == lastCall'.result.value
               tags == lastCall'.tags
               expected == {i \in 1..Len(tools) : Elems(tags) \subseteq Elems(tools[i][2].tags)}
           IN  /\ ~lastCall'.result.raised
               /\ Elems(res) = {tools[i][2] : i \in expected}
               /\ Len(res) = Cardinality(expected)
               /\ \A a, b \in 1..Len(res) :
                     a < b => OIndex(tools, res[a].name) < OIndex(tools, res[b].name)
               /\ tags = <<>> => res = [i \in 1..Len(tools) |-> tools[i][2]]
               /\ tools' = tools
               /\ _implementations' = _implementations
      ]_vars

\* two tools share tag "p", one of them also has "q": the query <<p, q>>
\* returns that one only
C18_Witness ==
    /\ lastCall.op = "get_tools_by_tags"
    /\ lastCall.tags = <<"p", "q">>
    /\ Len(tools) = 2
    /\ \E i \in 1..2 : tools[i][2].tags = <<"p">>
    /\ Len(lastCall.result.value) = 1
    /\ lastCall.result.value[1].tags = <<"p", "q">>

(***************************************************************************)
(* Zero-step plan                                                           *)
(***************************************************************************)
EmptyPlan == R.plan # None /\ R.plan.execution_plan = <<>>

FormatCalls == {j \in 1..Len(events) : events[j].e = "_format_result"}

ToolAt(l) == l.plan.execution_plan[l.i].tool

\* C20: when a tool's execute raises e, the run ends raising a
\* ToolExecutionError that carries the tool's name and e (message "Tool
\* <name> execution failed: <e>"), and self.current_task becomes failed with
\* that message as its error; a registered tool without implementation
\* makes the run raise ToolNotFoundError, not ToolExecutionError, before any
\* execute
C20_ToolExecutionErrorWraps ==
    [][ \A r \in RunIds :
           /\ rl[r].pc = "executing" /\ rl'[r].pc = "raised" /\ rl'[r].i = rl[r].i =>
                 /\ rl'[r].exc.type = "ToolExecutionError"
                 /\ rl'[r].exc.tool_name = ToolAt(rl[r])
                 /\ rl'[r].exc.original_error \in ToolErrors
                 /\ rl'[r].exc.msg = <<"Tool ", ToolAt(rl[r]), " execution failed: ">>
                                        \o rl'[r].exc.original_error.msg
                 /\ tasks'[current_task].status = "failed"
                 /\ tasks'[current_task].error = VStr(rl'[r].exc.msg)
                 /\ rl'[r].results = rl[r].results
                 /\ state' = state
           /\ /\ rl'[r].pc = "raised"
              /\ rl[r].pc \in {"planning", "executing"}
              /\ rl'[r].plan # None
              /\ rl'[r].i = Len(rl'[r].results) + 1
              /\ rl[r].pc = "planning" \/ rl'[r].i = rl[r].i + 1
              /\ get_tool(ToolAt(rl'[r])) # None
              /\ get_implementation(ToolAt(rl'[r])) = "None"
              /\ ~ResolvedAgainst(rl'[r], state').raised
              => /\ rl'[r].exc = [type |-> "ToolNotFoundError",
                                  msg |-> <<"No implementation found for tool: ",
                                            ToolAt(rl'[r])>>]
                 /\ \A j \in 1..Len(events') :
                       events'[j].e = "execute" /\ events'[j].r = r => events'[j].i < rl'[r].i
      ]_vars

\* one run ended on a tool without implementation, the other on a tool
\* whose execute raised
C20_Witness ==
    /\ rl[1].pc = "raised"
    /\ rl[1].exc.type = "ToolNotFoundError"
    /\ rl[1].exc.msg[1] = "No implementation found for tool: "
    /\ rl[2].pc = "raised"
    /\ rl[2].exc.type = "ToolExecutionError"
    /\ rl[2].exc.original_error \in ToolErrors

(***************************************************************************)
(* Task status state machine                                                *)
(***************************************************************************)
\* every exception run's except clause may catch in the run under study
CaughtErrors ==
    ModelErrors \cup FormatErrors \cup {NotConfigured, HookError}
      \cup {ToolExecutionError(n, e) : n \in {"conv", "calc"}, e \in ToolErrors}

\* C21: the status of the run's TaskExecution is in_progress, completed or
\* failed; it is completed only when run returned, with error None and
\* output the value the formatter returned; it is failed only when run
\* raised, with error the message of the exception raised; and the
\* finalizer leaves a failed task failed
C21_StatusStateMachine ==
    T # None =>
        /\ T.status \in {"in_progress", "completed", "failed"}
        /\ T.status = "completed" =>
              /\ R.pc = "returned"
              /\ T.error = None
              /\ T.output = R.ret
              /\ R.ret \in FormatResults
              /\ Count("_format_result", 0) = 1
        /\ T.status = "failed" =>
              /\ R.pc = "raised"
              /\ T.error = Str(R.exc)
              /\ T.end_time = "stamped"
        /\ T.status = "failed" => Finally(T).status = "failed"
        /\ \A e \in CaughtErrors : Finally(Except(T, e)).status = "failed"
        /\ R.pc = "returned" => T.status = "completed"
        /\ R.pc \in {"planning", "executing", "formatting"} => T.status = "in_progress"

\* on_agent_done raised after the formatter's value was stored: the task is
\* failed with the output set, and the finalizer has run
C21_Witness ==
    /\ R.pc = "raised"
    /\ R.exc = LoggerError(287)
    /\ T.status = "failed"
    /\ T.output \in FormatResults
    /\ T.error = Str(R.exc)
    /\ T.end_time = "stamped"

(***************************************************************************)
(* Schema-guided default mapping order                                      *)
(***************************************************************************)
\* the sources a property may be bound from, in the order of the claim,
\* each with whether it is available (the context field is reserved for
\* the properties news_context and hn_context)
Sources(s, at, task, p, schema) ==
    LET string == Get(schema, "type", "") = "string"
        hasContext == string /\ p \in {"news_context", "hn_context"}
                        /\ "context_data" \in DOMAIN at
        hasParameter == string /\ "task_parameters" \in DOMAIN at
                          /\ p \in DOMAIN at["task_parameters"]
    IN  << [available |-> has_tool_result(s, p), value |-> get_tool_result(s, p, None)],
           [available |-> has_variable(s, p), value |-> get_variable(s, p, None)],
           [available |-> hasContext,
            value |-> IF hasContext THEN at["context_data"] ELSE None],
           [available |-> hasParameter,
            value |-> IF hasParameter THEN at["task_parameters"][p] ELSE None],
           [available |-> string, value |-> VStr(task)] >>

FirstAvailable(srcs) ==
    LET hits == {j \in 1..Len(srcs) : srcs[j].available}
    IN  IF hits = {} THEN Unbound
        ELSE srcs[CHOOSE j \in hits : \A k \in hits : j <= k].value

\* a call of _map_inputs_to_tool without a mapping, for a registered tool,
\* on an AgentState
C22_Case ==
    /\ lastCall.op = "_map_inputs_to_tool"
    /\ lastCall.input_mapping = EmptyDict
    /\ lastCall.state.kind = "AgentState"
    /\ OHas(tools, lastCall.tool_name)

ExplicitCase ==
    /\ lastCall.op = "_map_inputs_to_tool"
    /\ lastCall.input_mapping # EmptyDict
    /\ lastCall.state.kind = "AgentState"
    /\ OHas(tools, lastCall.tool_name)

\* the stored result an entry's reference names
Referred(ref) == get_tool_result(lastCall.state, ref[1], None)

\* C23 as stated: an entry whose value contains a dot is bound to the
\* fieldName entry of otherTool's stored result; an entry without a dot is
\* bound to the whole result stored under the value if one is stored, and to
\* the value itself as a literal if none is
C23_ExplicitMappingResolution ==
    ExplicitCase =>
        /\ ~lastCall.result.raised
        /\ \A k \in DOMAIN lastCall.input_mapping :
              LET ref == lastCall.input_mapping[k]
              IN  /\ Len(ref) > 1 /\ IsDict(Referred(ref)) /\ ref[2] \in DOMAIN Referred(ref).d
                        => /\ k \in DOMAIN lastCall.result.value
                           /\ lastCall.result.value[k] = Referred(ref).d[ref[2]]
                  /\ Len(ref) = 1 /\ has_tool_result(lastCall.state, ref[1])
                        => /\ k \in DOMAIN lastCall.result.value
                           /\ lastCall.result.value[k] = Referred(ref)
                  /\ Len(ref) = 1 /\ ~has_tool_result(lastCall.state, ref[1])
                        => /\ k \in DOMAIN lastCall.result.value
                           /\ lastCall.result.value[k] = VStr(ref[1])

\* C23 amended: a value with more than one dot makes the resolution raise
\* ValueError; otherwise, for each entry, a value with one dot is bound to
\* otherTool's stored result's fieldName entry (None when the dict has no
\* such key) provided that result is a non-empty dict, and to nothing if it
\* is not; a value without a dot is bound to the result stored under it if
\* that result is not None, and else to the value itself as a literal
C23_ExplicitMappingResolves ==
    ExplicitCase =>
        IF \E k \in DOMAIN lastCall.input_mapping : Len(lastCall.input_mapping[k]) > 2
        THEN lastCall.result.raised /\ lastCall.result.exc.type = "ValueError"
        ELSE /\ ~lastCall.result.raised
             /\ \A k \in DOMAIN lastCall.input_mapping :
                   LET ref == lastCall.input_mapping[k]
                       bound == k \in DOMAIN lastCall.result.value
                   IN  /\ Len(ref) = 2 /\ IsDict(Referred(ref)) /\ DOMAIN Referred(ref).d # {}
                             => bound /\ lastCall.result.value[k]
                                           = Get(Referred(ref).d, ref[2], None)
                       /\ Len(ref) = 2 /\ ~(IsDict(Referred(ref)) /\ DOMAIN Referred(ref).d # {})
                             => ~bound
                       /\ Len(ref) = 1 /\ Referred(ref) # None
                             => bound /\ lastCall.result.value[k] = Referred(ref)
                       /\ Len(ref) = 1 /\ Referred(ref) = None
                             => bound /\ lastCall.result.value[k] = VStr(ref[1])

\* one mapping with a literal and a dotted reference: w gets the string,
\* x the field y of other's result
C23_Witness ==
    /\ ExplicitCase
    /\ lastCall.input_mapping = [w |-> <<"lit">>, x |-> <<"other", "y">>]
    /\ lastCall.result = Returned([w |-> VStr("lit"), x |-> VInt(3)])

(***************************************************************************)
(* Formatting input and output                                              *)
(***************************************************************************)
\* every step of the plan has returned
AllStepsSucceeded == R.plan # None /\ Len(R.results) = Len(PlanSteps)

TheOne(kind, k) == CHOOSE j \in At(kind, k) : TRUE

\* C25 as stated: with selection and tool hooks attached, a step that has
\* returned shows, in this order, input resolution, after_selection (tool
\* name, confidence 1.0, the step's reasoning), before_execution, the tool
\* call, after_execution with the result; then its record is in
\* TaskExecution.steps and its result in the state store under the tool's
\* name; and all of this precedes every event of the next step
C25_EventOrderInStep ==
    \A k \in 1..Len(R.results) :
        HasSelectionHooks /\ HooksOn(k) =>
            /\ \A kind \in {"_map_inputs_to_tool", "after_selection", "before_execution",
                            "execute", "after_execution"} :
                  Cardinality(At(kind, k)) = 1
            /\ TheOne("_map_inputs_to_tool", k) < TheOne("after_selection", k)
            /\ TheOne("after_selection", k) < TheOne("before_execution", k)
            /\ TheOne("before_execution", k) < TheOne("execute", k)
            /\ TheOne("execute", k) < TheOne("after_execution", k)
            /\ LET sel == events[TheOne("after_selection", k)]
               IN  /\ sel.selected_tool = PlanSteps[k].tool
                   /\ sel.confidence = "1.0"
                   /\ sel.reasoning = <<PlanSteps[k].reasoning>>
            /\ events[TheOne("after_execution", k)].result = R.results[k][2]
            /\ \A j \in 1..Len(events) :
                  IsStepEvent(events[j]) /\ events[j].i > k
                     => TheOne("after_execution", k) < j
            /\ Len(T.steps) >= k
            /\ T.steps[k].tool_name = PlanSteps[k].tool
            /\ has_tool_result(state, PlanSteps[k].tool)

(***************************************************************************)
(* State store unchanged on tool failure                                    *)
(***************************************************************************)
\* a step of the run under study in which its tool call ends with the
\* tool's own error
ExecuteRaisesStep ==
    /\ R.pc = "executing"
    /\ R'.pc = "raised"
    /\ R'.exc.type = "ToolExecutionError"
    /\ R'.exc.original_error \in ToolErrors

\* C26: a tool call whose execute raises leaves tool_results, last_tool and
\* message_history as they were; the store and the history change only in
\* a step where a tool's execute returned, and then by exactly that tool's
\* result: one write under the tool's name, one entry appended
C26_StoreUnchangedOnToolFailure ==
    [][ /\ ExecuteRaisesStep =>
              /\ state' = state
              /\ message_history' = message_history
        /\ state' # state \/ message_history' # message_history =>
              /\ R.pc = "executing"
              /\ ~ExecuteRaisesStep
              /\ Len(message_history') = Len(message_history) + 1
              /\ SubSeq(message_history', 1, Len(message_history)) = message_history
              /\ LET entry == message_history'[Len(message_history')]
                 IN  /\ entry.tool_name = PlanSteps[R.i].tool
                     /\ entry.inputs = R.inputs
                     /\ entry.result \in ToolResults
                     /\ state' = set_tool_result(state, entry.tool_name, entry.result)
                     /\ \/ R'.results = Append(R.results, <<entry.tool_name, entry.result>>)
                        \/ R'.pc = "raised" /\ R'.exc = HookError
      ]_vars

\* the second step's tool raised: the store and the history hold the first
\* step's result and nothing else
C26_Witness ==
    /\ ToolFailed
    /\ R.i = 2
    /\ state.kind = "AgentState"
    /\ Len(state.tool_results) = 1
    /\ state.last_tool = PlanSteps[1].tool
    /\ Len(message_history) = 1
    /\ message_history[1].result = R.results[1][2]

(***************************************************************************)
(* The AgentState methods on their own, called in any order with any        *)
(* tool name a str may be                                                    *)
(***************************************************************************)
ToolNames == {"calc", "conv", ""}
Results == {VInt(5), VInt(7)}
Default == VStr("default")

InitStore ==
    /\ tools = <<>>
    /\ _implementations = EmptyDict
    /\ lastCall = NoCall
    /\ logger = NoLogger
    /\ llm_provider = "None"
    /\ state = AgentState
    /\ message_history = <<>>
    /\ current_task = 0
    /\ tasks = [r \in RunIds |-> None]
    /\ _current_plan = None
    /\ attrs = EmptyDict
    /\ rl = [r \in RunIds |-> Idle]
    /\ events = <<>>

\* state.get_last_tool_result(default)
GetLastToolResult(default) ==
    /\ state.kind = "AgentState"
    /\ lastCall' = [op |-> "get_last_tool_result", default |-> default,
                    result |-> get_last_tool_result(state, default)]
    /\ UNCHANGED <<tools, _implementations, logger, llm_provider, state, message_history,
                   current_task, tasks, _current_plan, attrs, rl, events>>

NextStore ==
    \/ \E name \in {"x"}, value \in {VInt(1)} : SetVariable(name, value)
    \/ \E tool_name \in ToolNames, result \in Results : SetToolResult(tool_name, result)
    \/ Clear
    \/ GetLastToolResult(Default)

SpecStore == InitStore /\ [][NextStore]_vars

(***************************************************************************)
(* AgentState last_tool invariant                                           *)
(***************************************************************************)
\* C27 as stated: after every call, last_tool is None or a key of
\* tool_results; get_last_tool_result(default) is the result of the most
\* recent set_tool_result since the last clear (so: the result just passed
\* after set_tool_result, default after clear, as before after any other
\* call) and default when there was none; after clear variables,
\* tool_results and task_variables are empty, last_tool is None and
\* has_variable and has_tool_result are false for every name
C27_LastToolInvariant ==
    [][ /\ state'.last_tool = "None" \/ OHas(state'.tool_results, state'.last_tool)
        /\ lastCall.op = "none" => get_last_tool_result(state, Default) = Default
        /\ lastCall'.op = "set_tool_result" =>
              get_last_tool_result(state', Default) = lastCall'.result
        /\ lastCall'.op \in {"set_variable", "get_last_tool_result"} =>
              get_last_tool_result(state', Default) = get_last_tool_result(state, Default)
        /\ lastCall'.op = "clear" =>
              /\ get_last_tool_result(state', Default) = Default
              /\ state'.variables = EmptyDict
              /\ state'.tool_results = <<>>
              /\ state'.task_variables = EmptyDict
              /\ state'.last_tool = "None"
              /\ \A n \in ToolNames \cup {"x"} :
                    ~has_variable(state', n) /\ ~has_tool_result(state', n)
      ]_vars

(***************************************************************************)
(* Explicit mapping is exclusive                                            *)
(***************************************************************************)
\* the declared properties of the tool of the last call
Declared == DOMAIN Get(get_tool(lastCall.tool_name).input_schema, "properties", EmptyDict)

\* C28: with a non-empty mapping the returned object has only keys of the
\* mapping; a declared property the mapping omits is not bound, whatever
\* the result stored under its name, the variables, the context field, the
\* task parameters and the task text are (the same object is returned with
\* none of them); and a dotted reference whose source tool has no stored
\* dict result binds nothing, not a literal
C28_ExplicitMappingExclusive ==
    ExplicitCase /\ ~lastCall.result.raised =>
        /\ DOMAIN lastCall.result.value \subseteq DOMAIN lastCall.input_mapping
        /\ \A q \in Declared \ DOMAIN lastCall.input_mapping :
              q \notin DOMAIN lastCall.result.value
        /\ \A at \in AttrOptions, task \in {"task", "another"} :
              _map_inputs_to_tool(Registry, [lastCall.state EXCEPT !.variables = EmptyDict],
                                  at, lastCall.tool_name, task, lastCall.input_mapping)
                 = lastCall.result
        /\ \A k \in DOMAIN lastCall.input_mapping :
              /\ Len(lastCall.input_mapping[k]) > 1
              /\ ~IsDict(Referred(lastCall.input_mapping[k]))
              => k \notin DOMAIN lastCall.result.value

\* u declares news_context and x; the mapping sends x to other.y while
\* other's result is a number and results and variables exist under both
\* property names' defaults: nothing at all is bound
C28_Witness ==
    /\ ExplicitCase
    /\ lastCall.tool_name = "u"
    /\ lastCall.input_mapping = [x |-> <<"other", "y">>]
    /\ get_tool_result(lastCall.state, "other", None) = VInt(1)
    /\ has_tool_result(lastCall.state, "x")
    /\ has_variable(lastCall.state, "news_context")
    /\ "context_data" \in DOMAIN attrs
    /\ lastCall.result = Returned(EmptyDict)

(***************************************************************************)
(* Message history across runs                                              *)
(***************************************************************************)
\* run r's tool call returned in this step: its result joined the run's list
CallSucceeded(r) ==
    /\ rl[r].pc = "executing"
    /\ Len(rl'[r].results) = Len(rl[r].results) + 1

\* C29: message_history only grows, by one entry at its end for each tool
\* call that succeeds and by nothing else, and no run truncates or resets
\* it, so it holds the entries of all successful calls of both runs; the
\* message_history of a ToolContext is the history as it was when the
\* context was built, and stays so when entries are appended later
C29_HistoryAppendOnly ==
    [][ /\ Len(message_history') >= Len(message_history)
        /\ SubSeq(message_history', 1, Len(message_history)) = message_history
        /\ Len(message_history') = Len(rl'[1].results) + Len(rl'[2].results)
        /\ \A r \in RunIds :
              /\ CallSucceeded(r) =>
                    /\ Len(message_history') = Len(message_history) + 1
                    /\ message_history'[Len(message_history')] =
                          HistoryEntry(ToolAt(rl[r]), rl[r].inputs,
                                       rl'[r].results[Len(rl'[r].results)][2],
                                       rl[r].plan.execution_plan[rl[r].i].reasoning)
              /\ rl'[r].pc = "executing" /\ rl'[r] # rl[r] =>
                    rl'[r].ctx.message_history = message_history'
              /\ rl'[r].pc = "executing" /\ rl'[r] = rl[r] =>
                    /\ rl'[r].ctx.message_history = rl[r].ctx.message_history
                    /\ Len(rl'[r].ctx.message_history) <= Len(message_history)
        /\ message_history' # message_history => \E r \in RunIds : CallSucceeded(r)
      ]_vars

\* run 1's tool is in flight with a context built on the empty history,
\* while run 2 has since made a successful call and returned
C29_Witness ==
    /\ rl[1].pc = "executing"
    /\ rl[1].ctx.message_history = <<>>
    /\ rl[2].pc = "returned"
    /\ Len(rl[2].results) = 1
    /\ Len(message_history) = 1
    /\ message_history[1].tool_name = rl[2].results[1][1]

(***************************************************************************)
(* weather-vibes-agent: WeatherVibesAgent.process_acp_request               *)
(* (agent/weather_vibes_agent.py) and process_request (agent.py), which     *)
(* keep the list state.search_history.  A request is a dict; its "input",   *)
(* when it is a dict, may hold a "location" string.                         *)
(***************************************************************************)
\* the literals of "if len(search_history) > 5" and "search_history[-5:]"
HistoryLimit == 5
KeepLast == 5

\* how many requests with a location a behaviour makes
MaxRequests == 7

\* WeatherVibesAgent.__init__: an AgentState with two more attributes
WeatherState ==
    [kind |-> "AgentState",
     variables |-> EmptyDict,
     tool_results |-> <<>>,
     last_tool |-> "None",
     task_start_time |-> "None",
     task_variables |-> EmptyDict,
     search_history |-> <<>>,
     favorite_locations |-> <<>>]

\* xs[-n:]
LastN(xs, n) == IF Len(xs) <= n THEN xs ELSE SubSeq(xs, Len(xs) - n + 1, Len(xs))

\* an update that moves a location already present to the end of the list
UpdateSearchHistoryRefreshing(search_history, location) ==
    LET others == SelectSeq(search_history, LAMBDA x : x # location)
    IN  LastN(Append(others, location), KeepLast)

\* "Update search history": lines 225-229 (agent.py 95-98)
UpdateSearchHistory(search_history, location) ==
    IF \E j \in 1..Len(search_history) : search_history[j] = location
    THEN search_history
    ELSE LET appended == Append(search_history, location)
         IN  IF Len(appended) > HistoryLimit THEN LastN(appended, KeepLast) ELSE appended

\* the names locations go by, in the order in which they first arrive
LocationNames == <<"a", "b", "c", "d", "e", "f", "g">>

\* the requests: a location, an empty location, no location, no input, and
\* an input that is not a dict (JSON null)
RequestOf(location) == [input |-> VDict([location |-> location])]
RequestsWithoutLocation ==
    { RequestOf(""), [input |-> VDict(EmptyDict)], EmptyDict, [input |-> None] }

\* what the tools do in a request: the weather tool answers, answers with
\* an error, or one of the tools raises
Outcomes == {"ok", "weather_error", "raises"}

\* the answer of a request and the search history it leaves; message400 and
\* prefix500 are the texts of the handler that is running
Handle(request, outcome, search_history, message400, prefix500) ==
    LET input_data == Get(request, "input", VDict(EmptyDict))
    IN  IF ~IsDict(input_data)
        THEN [response |-> [error |-> 500,
                            message |-> <<prefix500, "'NoneType' object has no attribute 'get'">>],
              search_history |-> search_history, location |-> ""]
        ELSE LET location == Get(input_data.d, "location", "")
             IN  IF location = ""
                 THEN [response |-> [error |-> 400, message |-> <<message400>>],
                       search_history |-> search_history, location |-> ""]
                 ELSE [response |->
                          CASE outcome = "weather_error" ->
                                  [error |-> 500, message |-> <<"Weather API error: ", "failed">>]
                            [] outcome = "raises" ->
                                  [error |-> 500, message |-> <<prefix500, "boom">>]
                            [] OTHER -> [output |-> location],
                       search_history |-> UpdateSearchHistory(search_history, location),
                       location |-> location]

\* one call of a handler: the history is updated before the first await,
\* then the weather tool is called with the location
Request(op, request, outcome, message400, prefix500) ==
    \E h \in {Handle(request, outcome, state.search_history, message400, prefix500)} :
        /\ h.location # "" => Len(events) < MaxRequests
        /\ state' = [state EXCEPT !.search_history = h.search_history]
        /\ events' = IF h.location = "" THEN events
                     ELSE Append(events, [e |-> "execute", tool |-> "get_weather",
                                          location |-> h.location])
        /\ lastCall' = [op |-> op, request |-> request, response |-> h.response]
        /\ UNCHANGED <<tools, _implementations, logger, llm_provider, message_history,
                       current_task, tasks, _current_plan, attrs, rl>>

\* await agent.process_acp_request(request)
ProcessAcpRequest(request, outcome) ==
    Request("process_acp_request", request, outcome,
            "Invalid input: 'location' field is required", "Error processing request: ")

\* await process_request(agent, request)
ProcessRequest(request, outcome) ==
    Request("process_request", request, outcome, "Location is required", "Error: ")

\* the locations the weather tool has been called with, each once, in the
\* order of their first call
Distinct(xs) ==
    LET firsts == {j \in 1..Len(xs) : \A k \in 1..(j - 1) : xs[k] # xs[j]}
    IN  [n \in 1..Cardinality(firsts) |->
            xs[CHOOSE j \in firsts : Cardinality({k \in firsts : k < j}) = n - 1]]

FirstSeen == Distinct([j \in 1..Len(events) |-> events[j].location])

\* the locations a next request may carry: one seen before, or the next
\* name not yet used (locations are only compared for equality)
NextLocations ==
    Elems(FirstSeen) \cup (IF Len(FirstSeen) < Len(LocationNames)
                           THEN {LocationNames[Len(FirstSeen) + 1]} ELSE {})

InitWeather ==
    /\ tools = <<>>
    /\ _implementations = EmptyDict
    /\ lastCall = NoCall
    /\ logger = NoLogger
    /\ llm_provider = "None"
    /\ state = WeatherState
    /\ message_history = <<>>
    /\ current_task = 0
    /\ tasks = [r \in RunIds |-> None]
    /\ _current_plan = None
    /\ attrs = EmptyDict
    /\ rl = [r \in RunIds |-> Idle]
    /\ events = <<>>

NextWeather ==
    \/ \E location \in NextLocations, outcome \in Outcomes :
          ProcessAcpRequest(RequestOf(location), outcome)
    \/ \E request \in RequestsWithoutLocation : ProcessAcpRequest(request, "ok")
    \/ \E location \in NextLocations, outcome \in Outcomes :
          ProcessRequest(RequestOf(location), outcome)
    \/ \E request \in RequestsWithoutLocation : ProcessRequest(request, "ok")

SpecWeather == InitWeather /\ [][NextWeather]_vars

\* the request of the last call carries a location
Located == lastCall'.request \in { RequestOf(LocationNames[j]) : j \in 1..Len(LocationNames) }

\* a handler ran in this step
Handled == lastCall'.op \in {"process_acp_request", "process_request"}

NoDuplicates(xs) == \A j, k \in 1..Len(xs) : xs[j] = xs[k] => j = k

====
